---- MODULE Spec2Model ----
(***************************************************************************)
(* Model of TyphoonDandelionViz (src/typhoon_dandelion.py): the layout of  *)
(* the dandelion, the growing -> stable -> blowing lifecycle driven by the *)
(* animation callback, the wind integration of the seeds and the click /   *)
(* pointer handlers.                                                       *)
(*                                                                         *)
(* Fixed point.  Python floats are modelled as scaled integers:            *)
(*   - times (time, lifecycle_time, durations, dt) in 1/100 s;             *)
(*   - progress values and alphas in 1/1000 (1000 = 1.0);                  *)
(*   - coordinates, velocities and angles in 1/1000 (1000 = 1.0 unit,      *)
(*     1000 = 1 rad);                                                      *)
(*   - wind speeds in 1/2 km/h;                                            *)
(* divisions round towards minus infinity.  np.sin, np.exp and np.sqrt are *)
(* evaluated by integer approximations (Sin, ExpNeg, ISqrt below).         *)
(* np.random is a deterministic generator with an unknown seed: the model  *)
(* keeps its state in rng and draws the seed from RngSeeds.                *)
(***************************************************************************)
EXTENDS Integers, Sequences, FiniteSets, TLC

VARIABLES
    pc,                     \* "constructed" | "animating" | "failed"
    error,                  \* exception raised by the last failing call
    typhoon_data,           \* self.typhoon_data
    positions,              \* layout returned by calculate_dandelion_from_bottom_left
    branch_velocities,      \* self.branch_velocities (per-year sway parameters)
    seed_positions,         \* self.seed_positions (dict, in insertion order)
    fine_branch_positions,  \* self.fine_branch_positions (dict, in insertion order)
    mouse_x, mouse_y,       \* self.mouse_x, self.mouse_y
    time,                   \* self.time
    lifecycle_state,        \* self.lifecycle_state
    lifecycle_time,         \* self.lifecycle_time
    growth_progress,        \* self.growth_progress
    fade_progress,          \* self.fade_progress
    blowing_elapsed,        \* self.blowing_elapsed
    regrow_duration, stable_duration, wind_duration, fade_delay, fade_duration,
    wind_active,            \* self.wind_active
    wind_start_time,        \* self.wind_start_time
    selected_typhoon,       \* self.selected_typhoon
    info_box_visible,       \* self.info_box_visible
    info_box_x, info_box_y, \* self.info_box_x, self.info_box_y
    rng,                    \* state of the np.random stream
    frames,                 \* number of animate() calls so far
    last,                   \* the last call made on the instance
    runs,                   \* two further lifecycle clocks, ticked at their own dt
    probe                   \* the last evaluation of a function: its arguments and result

vars == <<pc, error, typhoon_data, positions, branch_velocities, seed_positions,
          fine_branch_positions, mouse_x, mouse_y, time, lifecycle_state,
          lifecycle_time, growth_progress, fade_progress, blowing_elapsed,
          regrow_duration, stable_duration, wind_duration, fade_delay,
          fade_duration, wind_active, wind_start_time, selected_typhoon,
          info_box_visible, info_box_x, info_box_y, rng, frames, last, runs, probe>>

(***************************************************************************)
(* Bounds of the model.                                                    *)
(***************************************************************************)
MaxFrames == 256     \* animate() is called at most this many times

(***************************************************************************)
(* Program constants.                                                      *)
(***************************************************************************)
DT == 4                      \* animate: dt = 0.04
DefaultRegrow == 400         \* regrow_duration = 4.0
DefaultStable == 300         \* stable_duration = 3.0
DefaultWind == 300           \* wind_duration = 3.0
DefaultFadeDelay == 200      \* fade_delay = 2.0
DefaultFadeDuration == 200   \* fade_duration = 2.0
SeedAlpha == 850             \* seed alpha 0.85
BranchAlpha == 750           \* fine branch alpha 0.75
CenterX == 6000              \* center_x = 6
CenterY == 6000              \* center_y = 6
Pi == 3142                   \* np.pi
RngModulus == 65536

None == [none |-> TRUE]      \* Python's None

Min(a, b) == IF a <= b THEN a ELSE b
Max(a, b) == IF a >= b THEN a ELSE b
Abs(a) == IF a >= 0 THEN a ELSE 0 - a

(***************************************************************************)
(* Numeric helpers: integer evaluations of np.sqrt, np.sin, np.cos, np.exp *)
(***************************************************************************)
RECURSIVE SqrtSearch(_, _, _)
SqrtSearch(n, lo, hi) ==
    IF lo >= hi THEN lo
    ELSE LET mid == (lo + hi + 1) \div 2
         IN  IF mid * mid <= n THEN SqrtSearch(n, mid, hi)
             ELSE SqrtSearch(n, lo, mid - 1)

\* floor(sqrt(n)) for n >= 0
ISqrt(n) == SqrtSearch(n, 0, Min(n, 46340))

\* 1000 * sin(a / 1000) for 0 <= a <= Pi (Bhaskara's rational approximation)
SinHalf(a) ==
    (16 * a * (Pi - a)) \div ((5 * Pi * Pi - 4 * a * (Pi - a)) \div 1000)

\* 1000 * sin(a / 1000), any a
Sin(a) ==
    LET m == a % (2 * Pi)
    IN  IF m <= Pi THEN SinHalf(m) ELSE 0 - SinHalf(m - Pi)

\* 1000 * cos(a / 1000), any a
Cos(a) == Sin(a + Pi \div 2)

\* 1000 * exp(-x / 1000) for 0 <= x <= 2000 (Pade approximant of order 2,2)
ExpNeg(x) ==
    (12000000 - 6000 * x + x * x) \div ((12000000 + 6000 * x + x * x) \div 1000)

(***************************************************************************)
(* np.random: a linear congruential stream.                                *)
(***************************************************************************)
RngNext(r) == (r * 25173 + 13849) % RngModulus

\* np.random.uniform(lo, hi) read off generator state r
Uniform(lo, hi, r) == lo + ((hi - lo) * r) \div RngModulus

(***************************************************************************)
(* Python dicts keep insertion order: a dict is a sequence of entries, and *)
(* d[key] = value replaces the entry of an existing key in place or        *)
(* appends a new one.                                                      *)
(***************************************************************************)
DictHas(d, k) == \E i \in 1..Len(d) : d[i].key = k

DictGet(d, k) == d[CHOOSE i \in 1..Len(d) : d[i].key = k].val

DictPut(d, k, v) ==
    IF DictHas(d, k)
    THEN [i \in 1..Len(d) |-> IF d[i].key = k THEN [key |-> k, val |-> v] ELSE d[i]]
    ELSE Append(d, [key |-> k, val |-> v])

\* f"branch_{seed_id}" and branch_id.replace('branch_', '')
BranchId(seed_id) == [branch_ |-> seed_id]
StripBranch(branch_id) == branch_id.branch_

(***************************************************************************)
(* calculate_seed_size and classify_typhoon.  Wind speeds are in 1/2 km/h, *)
(* so that speeds between two whole numbers of km/h are arguments too.     *)
(***************************************************************************)
Kmh == 2                     \* 1 km/h in the unit of wind speeds

\* faulty variant: the first cutoff is inclusive
calculate_seed_size_inclusive(wind_speed) ==
    IF wind_speed <= 63 * Kmh THEN 40
    ELSE IF wind_speed < 88 * Kmh THEN 70
    ELSE IF wind_speed < 118 * Kmh THEN 110
    ELSE IF wind_speed < 150 * Kmh THEN 160
    ELSE IF wind_speed < 185 * Kmh THEN 220
    ELSE 290

calculate_seed_size(wind_speed) ==
    IF wind_speed < 63 * Kmh THEN 40
    ELSE IF wind_speed < 88 * Kmh THEN 70
    ELSE IF wind_speed < 118 * Kmh THEN 110
    ELSE IF wind_speed < 150 * Kmh THEN 160
    ELSE IF wind_speed < 185 * Kmh THEN 220
    ELSE 290

\* TyphoonDandelionViz.classify_typhoon (typhoon_dandelion.py)
classify_typhoon(wind_speed) ==
    IF wind_speed < 63 * Kmh THEN "Tropical Depression"
    ELSE IF wind_speed < 88 * Kmh THEN "Tropical Storm"
    ELSE IF wind_speed < 118 * Kmh THEN "Severe Tropical Storm"
    ELSE IF wind_speed < 150 * Kmh THEN "Typhoon"
    ELSE IF wind_speed < 185 * Kmh THEN "Severe Typhoon"
    ELSE "Super Typhoon"

\* HKOTyphoonCrawler.classify_typhoon (data_crawler.py)
crawler_classify_typhoon(wind_speed) ==
    IF wind_speed <= 62 * Kmh THEN "Tropical Depression"
    ELSE IF wind_speed <= 87 * Kmh THEN "Tropical Storm"
    ELSE IF wind_speed <= 117 * Kmh THEN "Severe Tropical Storm"
    ELSE IF wind_speed <= 149 * Kmh THEN "Typhoon"
    ELSE IF wind_speed <= 184 * Kmh THEN "Severe Typhoon"
    ELSE "Super Typhoon"

\* TyphoonDandelionViz.classify_typhoon of unnamed/part_000
part_000_classify_typhoon(wind_speed) ==
    IF wind_speed < 63 * Kmh THEN "Tropical Depression"
    ELSE IF wind_speed < 88 * Kmh THEN "Tropical Storm"
    ELSE IF wind_speed < 118 * Kmh THEN "Severe Tropical Storm"
    ELSE IF wind_speed < 150 * Kmh THEN "Typhoon"
    ELSE IF wind_speed < 185 * Kmh THEN "Severe Typhoon"
    ELSE "Super Typhoon"

(***************************************************************************)
(* calculate_dandelion_from_bottom_left                                    *)
(***************************************************************************)
StemLength == 50

\* stem_x[i], stem_y[i] for i in 0..StemLength-1
StemX(i) == (6000 * i) \div (StemLength - 1)
              + (300 * Sin((2 * Pi * i) \div StemLength) * 300) \div 1000000
StemY(i) == (6000 * i) \div (StemLength - 1)
              + (300 * Sin((2 * Pi * i) \div StemLength) * 200) \div 1000000

Stem == [x |-> [i \in 1..StemLength |-> StemX(i - 1)],
         y |-> [i \in 1..StemLength |-> StemY(i - 1)]]

\* the records of one year, in dataset order (years_data[year])
YearsData(data, year) == SelectSeq(data, LAMBDA t : t.year = year)

RECURSIVE SortedSeq(_)
SortedSeq(S) ==
    IF S = {} THEN <<>>
    ELSE LET m == CHOOSE x \in S : \A y \in S : x <= y
         IN  <<m>> \o SortedSeq(S \ {m})

\* sorted(years_data.keys())
SortedYears(data) == SortedSeq({data[i].year : i \in 1..Len(data)})

\* typhoon_counts, min_count, max_count, count_range
TyphoonCounts(data) ==
    LET years == SortedYears(data)
    IN  [i \in 1..Len(years) |-> Len(YearsData(data, years[i]))]

MinCount(data) ==
    LET c == TyphoonCounts(data)
    IN  CHOOSE m \in {c[i] : i \in 1..Len(c)} : \A i \in 1..Len(c) : m <= c[i]

MaxCount(data) ==
    LET c == TyphoonCounts(data)
    IN  CHOOSE m \in {c[i] : i \in 1..Len(c)} : \A i \in 1..Len(c) : m >= c[i]

CountRange(data) ==
    IF MaxCount(data) > MinCount(data) THEN MaxCount(data) - MinCount(data) ELSE 1

\* faulty variant: the minimum count is not subtracted
NormalizedCountFromZero(count, min_count, count_range) ==
    500 + (500 * count) \div count_range

\* normalized_count of a year holding count records (1000 = 1.0)
NormalizedCount(count, min_count, count_range) ==
    500 + (500 * (count - min_count)) \div count_range

\* faulty variant: the slice stops one stride early when the stride does not
\* divide the remaining length
ClusterSliceShort(year_typhoons, cluster_idx, cluster_count) ==
    LET n == Len(year_typhoons)
        m == IF cluster_idx >= n THEN 0
             ELSE Max(1, (n - cluster_idx) \div cluster_count)
    IN  [j \in 1..m |-> year_typhoons[cluster_idx + (j - 1) * cluster_count + 1]]

\* year_typhoons[cluster_idx::cluster_count]
ClusterSlice(year_typhoons, cluster_idx, cluster_count) ==
    LET n == Len(year_typhoons)
        m == IF cluster_idx >= n THEN 0
             ELSE (n - cluster_idx + cluster_count - 1) \div cluster_count
    IN  [j \in 1..m |-> year_typhoons[cluster_idx + (j - 1) * cluster_count + 1]]

\* body of "for j, typhoon in enumerate(typhoons_in_cluster)", iterations j..
RECURSIVE SeedLoop(_, _, _, _)
SeedLoop(j, in_cluster, c, acc) ==
    IF j >= Len(in_cluster) THEN acc
    ELSE
      LET typhoon == in_cluster[j + 1]
          r1 == RngNext(acc.rng)
          r2 == RngNext(r1)
          offset_angle == Uniform(0, 2 * Pi, r1)
          offset_radius == Uniform(100, 400, r2)
          typhoon_x == c.cluster_x + (offset_radius * Cos(offset_angle)) \div 1000
          typhoon_y == c.cluster_y + (offset_radius * Sin(offset_angle)) \div 1000
          seed_size == calculate_seed_size(typhoon.max_wind_speed)
          seed_id == <<c.year, c.cluster_idx, j>>
          pos == [x |-> typhoon_x, y |-> typhoon_y,
                  original_x |-> typhoon_x, original_y |-> typhoon_y,
                  size |-> seed_size, typhoon |-> typhoon,
                  cluster_id |-> c.cluster_idx, seed_id |-> seed_id,
                  year |-> c.year]
          seed == [original_x |-> typhoon_x, original_y |-> typhoon_y,
                   current_x |-> typhoon_x, current_y |-> typhoon_y,
                   velocity_x |-> 0, velocity_y |-> 0,
                   alpha |-> SeedAlpha, year |-> c.year,
                   typhoon |-> typhoon, size |-> seed_size]
          branch == [offset_x |-> typhoon_x - c.year_x,
                     offset_y |-> typhoon_y - c.year_y,
                     alpha |-> BranchAlpha, year |-> c.year]
      IN  SeedLoop(j + 1, in_cluster, c,
                   [rng |-> r2,
                    years |-> acc.years,
                    typhoons |-> Append(acc.typhoons, pos),
                    seeds |-> DictPut(acc.seeds, seed_id, seed),
                    branches |-> DictPut(acc.branches, BranchId(seed_id), branch)])

\* body of "for cluster_idx in range(cluster_count)", iterations cluster_idx..
RECURSIVE ClusterLoop(_, _, _, _)
ClusterLoop(cluster_idx, year_typhoons, y, acc) ==
    LET cluster_count == Min(3, Len(year_typhoons))
    IN
    IF cluster_idx >= cluster_count THEN acc
    ELSE
      LET r1 == RngNext(acc.rng)
          cluster_angle == y.angle + (2 * cluster_idx - cluster_count) * 200
          cluster_radius == y.radius + 1000 + Uniform(0, 600, r1)
          c == [year |-> y.year, year_x |-> y.x, year_y |-> y.y,
                cluster_idx |-> cluster_idx,
                cluster_x |-> CenterX + (cluster_radius * Cos(cluster_angle)) \div 1000,
                cluster_y |-> CenterY + (cluster_radius * Sin(cluster_angle)) \div 1000]
      IN  ClusterLoop(cluster_idx + 1, year_typhoons, y,
                      SeedLoop(0, ClusterSlice(year_typhoons, cluster_idx, cluster_count),
                               c, [acc EXCEPT !.rng = r1]))

\* body of "for i, year in enumerate(years)", iterations i..
RECURSIVE YearLoop(_, _, _)
YearLoop(i, data, acc) ==
    LET years == SortedYears(data)
        num_years == Len(years)
    IN
    IF i >= num_years THEN acc
    ELSE
      LET year == years[i + 1]
          r1 == RngNext(acc.rng)
          r2 == RngNext(r1)
          base_angle == 0 - ((2 * Pi * i) \div num_years)
          angle == base_angle + Uniform(-200, 200, r1)
          year_typhoon_count == Len(YearsData(data, year))
          normalized_count ==
              NormalizedCount(year_typhoon_count, MinCount(data), CountRange(data))
          spiral_growth == (300 * i) \div num_years
          radius == ((2500 + spiral_growth) * normalized_count) \div 1000
                      + Uniform(0, 400, r2)
          y == [year |-> year,
                x |-> CenterX + (radius * Cos(angle)) \div 1000,
                y |-> CenterY + (radius * Sin(angle)) \div 1000,
                angle |-> angle, radius |-> radius,
                center_x |-> CenterX, center_y |-> CenterY,
                typhoon_count |-> year_typhoon_count]
      IN  YearLoop(i + 1, data,
                   ClusterLoop(0, YearsData(data, year), y,
                               [acc EXCEPT !.rng = r2,
                                           !.years = Append(acc.years, y)]))

\* min(typhoon_counts) raises ValueError on an empty list
LayoutRaises(data) == Len(data) = 0

\* the layout and the tables after calculate_dandelion_from_bottom_left
\* returns normally; seeds and branches start from the tables of the instance
CalculateDandelion(data, seeds, branches, r) ==
    YearLoop(0, data, [rng |-> r, years |-> <<>>, typhoons |-> <<>>,
                       seeds |-> seeds, branches |-> branches])

(***************************************************************************)
(* update_lifecycle.  l holds the lifecycle fields of the instance, cfg    *)
(* the five durations, now is self.time.  The result carries two extra     *)
(* fields: reset (reset_positions was called) and raised (the exception    *)
(* that ended the call, fields assigned before it are kept).               *)
(***************************************************************************)
LifeFields(st, lt, gp, fp, be, wa, ws) ==
    [lifecycle_state |-> st, lifecycle_time |-> lt, growth_progress |-> gp,
     fade_progress |-> fp, blowing_elapsed |-> be, wind_active |-> wa,
     wind_start_time |-> ws, reset |-> FALSE, raised |-> "none"]

Durations(regrow, stable, wind, delay, fade) ==
    [regrow_duration |-> regrow, stable_duration |-> stable,
     wind_duration |-> wind, fade_delay |-> delay, fade_duration |-> fade]

GrowingStep(l, cfg) ==
    IF cfg.regrow_duration = 0
    THEN [l EXCEPT !.raised = "ZeroDivisionError"]
    ELSE LET gp == Min(1000, (l.lifecycle_time * 1000) \div cfg.regrow_duration)
         IN  IF gp >= 1000
             THEN [l EXCEPT !.growth_progress = gp,
                            !.lifecycle_state = "stable",
                            !.lifecycle_time = 0]
             ELSE [l EXCEPT !.growth_progress = gp]

\* faulty variant: the assignment of the new state is missing, stable restarts
StableStepRestarting(l, cfg, now) ==
    IF l.lifecycle_time >= cfg.stable_duration
    THEN [l EXCEPT !.wind_start_time = now,
                   !.lifecycle_time = 0,
                   !.blowing_elapsed = 0]
    ELSE l

\* faulty variant: leaves stable only once the elapsed time exceeds the duration
StableStepLate(l, cfg, now) ==
    IF l.lifecycle_time > cfg.stable_duration
    THEN [l EXCEPT !.lifecycle_state = "blowing",
                   !.wind_active = TRUE,
                   !.wind_start_time = now,
                   !.lifecycle_time = 0,
                   !.blowing_elapsed = 0]
    ELSE l

StableStep(l, cfg, now) ==
    IF l.lifecycle_time >= cfg.stable_duration
    THEN [l EXCEPT !.lifecycle_state = "blowing",
                   !.wind_active = TRUE,
                   !.wind_start_time = now,
                   !.lifecycle_time = 0,
                   !.blowing_elapsed = 0]
    ELSE l

\* faulty variant: the fade ramp starts with the wind, not after fade_delay
FadeProgressNoDelay(blowing, cfg) ==
    Min(1000, (blowing * 1000) \div cfg.fade_duration)

\* fade_progress as update_lifecycle computes it while blowing
FadeProgress(blowing, cfg) ==
    IF blowing >= cfg.fade_delay
    THEN Min(1000, ((blowing - cfg.fade_delay) * 1000) \div cfg.fade_duration)
    ELSE 0

\* faulty variant: wind_active is left set when the wind phase ends
BlowingStepWindOn(l, cfg) ==
    LET be == l.lifecycle_time
    IN  IF be >= cfg.fade_delay /\ cfg.fade_duration = 0
        THEN [l EXCEPT !.blowing_elapsed = be, !.raised = "ZeroDivisionError"]
        ELSE IF l.lifecycle_time >= cfg.wind_duration
        THEN [l EXCEPT !.blowing_elapsed = be,
                       !.lifecycle_state = "growing",
                       !.lifecycle_time = 0,
                       !.growth_progress = 0,
                       !.fade_progress = 0,
                       !.reset = TRUE]
        ELSE [l EXCEPT !.blowing_elapsed = be,
                       !.fade_progress = FadeProgress(be, cfg)]

\* faulty variant: the hard reset is skipped when the wind phase ends
BlowingStepNoReset(l, cfg) ==
    LET be == l.lifecycle_time
    IN  IF be >= cfg.fade_delay /\ cfg.fade_duration = 0
        THEN [l EXCEPT !.blowing_elapsed = be, !.raised = "ZeroDivisionError"]
        ELSE IF l.lifecycle_time >= cfg.wind_duration
        THEN [l EXCEPT !.blowing_elapsed = be,
                       !.lifecycle_state = "growing",
                       !.wind_active = FALSE,
                       !.lifecycle_time = 0,
                       !.growth_progress = 0,
                       !.fade_progress = 0]
        ELSE [l EXCEPT !.blowing_elapsed = be,
                       !.fade_progress = FadeProgress(be, cfg)]

BlowingStep(l, cfg) ==
    LET be == l.lifecycle_time
    IN  IF be >= cfg.fade_delay /\ cfg.fade_duration = 0
        THEN [l EXCEPT !.blowing_elapsed = be, !.raised = "ZeroDivisionError"]
        ELSE IF l.lifecycle_time >= cfg.wind_duration
        THEN [l EXCEPT !.blowing_elapsed = be,
                       !.lifecycle_state = "growing",
                       !.wind_active = FALSE,
                       !.lifecycle_time = 0,
                       !.growth_progress = 0,
                       !.fade_progress = 0,
                       !.reset = TRUE]
        ELSE [l EXCEPT !.blowing_elapsed = be,
                       !.fade_progress = FadeProgress(be, cfg)]

update_lifecycle(l, cfg, now) ==
    IF l.lifecycle_state = "growing" THEN GrowingStep(l, cfg)
    ELSE IF l.lifecycle_state = "stable" THEN StableStep(l, cfg, now)
    ELSE IF l.lifecycle_state = "blowing" THEN BlowingStep(l, cfg)
    ELSE l

(***************************************************************************)
(* reset_positions                                                         *)
(***************************************************************************)
\* faulty variant: the velocity is not cleared
ResetSeedKeepingVelocity(s) ==
    [s EXCEPT !.current_x = s.original_x, !.current_y = s.original_y,
              !.alpha = SeedAlpha]

\* faulty variant: the position is set one integration step past the original
\* position, using the velocity the seed still has
ResetSeedDrifting(s) ==
    [s EXCEPT !.current_x = s.original_x + (s.velocity_x * 50) \div 1000,
              !.current_y = s.original_y + (s.velocity_y * 50) \div 1000,
              !.velocity_x = 0, !.velocity_y = 0, !.alpha = SeedAlpha]

ResetSeed(s) ==
    [s EXCEPT !.current_x = s.original_x, !.current_y = s.original_y,
              !.velocity_x = 0, !.velocity_y = 0, !.alpha = SeedAlpha]

ResetBranch(b) == [b EXCEPT !.alpha = BranchAlpha]

reset_seeds(seeds) ==
    [i \in 1..Len(seeds) |-> [key |-> seeds[i].key, val |-> ResetSeed(seeds[i].val)]]

reset_branches(branches) ==
    [i \in 1..Len(branches) |->
        [key |-> branches[i].key, val |-> ResetBranch(branches[i].val)]]

(***************************************************************************)
(* update_wind_blowing                                                     *)
(***************************************************************************)
\* wind_progress = blowing_elapsed / wind_duration (1000 = 1.0)
WindProgress(be, wd) == (be * 1000) \div wd

\* wind_strength = np.sin(wind_progress * np.pi * 0.5) ** 0.5
WindStrength(wp) == ISqrt(Max(0, Sin((wp * Pi) \div 2000)) * 1000)

\* faulty variant: the decay of a seed that left the range is not clamped at 0
WindAlphaUnclamped(x, alpha, wp) ==
    IF x < -5000 \/ x > 20000
    THEN alpha - 50
    ELSE (SeedAlpha * (1000 - (wp * 800) \div 1000)) \div 1000

\* alpha of a seed after the position update
WindAlpha(x, alpha, wp) ==
    IF x < -5000 \/ x > 20000
    THEN Max(0, alpha - 50)
    ELSE (SeedAlpha * (1000 - (wp * 800) \div 1000)) \div 1000

\* one iteration of the loop over seed_positions; r is the generator state
BlowSeed(s, wp, r) ==
    LET wind_strength == WindStrength(wp)
        r1 == RngNext(r)
        r2 == RngNext(r1)
        base_accel_x == (0 - 12) * wind_strength
        base_accel_y == 3 * wind_strength
        random_x == Uniform(-2000, 1000, r1)
        random_y == Uniform(-1000, 2000, r2)
        vx == (((s.velocity_x + ((base_accel_x + random_x) * 50) \div 1000)) * 98) \div 100
        vy == (((s.velocity_y + ((base_accel_y + random_y) * 50) \div 1000)) * 98) \div 100
        x == s.current_x + (vx * 50) \div 1000
        y == s.current_y + (vy * 50) \div 1000
    IN  [s EXCEPT !.velocity_x = vx, !.velocity_y = vy,
                  !.current_x = x, !.current_y = y,
                  !.alpha = WindAlpha(x, s.alpha, wp)]

\* (a * b) % RngModulus without leaving 32 bits
MulMod(a, b) ==
    ((a * (b % 256)) + ((a * (b \div 256)) % RngModulus) * 256) % RngModulus

\* n draws map state r to (m * r + c) % RngModulus: the pair <<m, c>>;
\* the map of n draws is the map of n \div 2 draws applied twice and, for an
\* odd n, one more draw
JumpOdd(m, c, odd) ==
    IF odd = 0 THEN <<m, c>>
    ELSE <<MulMod(25173, m), (MulMod(25173, c) + 13849) % RngModulus>>

JumpTwice(h, odd) ==
    JumpOdd(MulMod(h[1], h[1]), (MulMod(h[1], h[2]) + h[2]) % RngModulus, odd)

RECURSIVE RngJump(_)
RngJump(n) == IF n = 0 THEN <<1, 0>> ELSE JumpTwice(RngJump(n \div 2), n % 2)

JumpFrom(r, j) == (MulMod(j[1], r) + j[2]) % RngModulus

\* the generator after a number of draws
RngAfter(r, draws) == JumpFrom(r, RngJump(draws))

BlowSeeds(seeds, wp, r) ==
    [i \in 1..Len(seeds) |->
        [key |-> seeds[i].key,
         val |-> BlowSeed(seeds[i].val, wp, RngAfter(r, 2 * (i - 1)))]]

\* faulty variant: the branch of a seed that left the range keeps its alpha
MirrorBranchInRange(b, seeds) ==
    IF /\ DictHas(seeds, StripBranch(b.key))
       /\ DictGet(seeds, StripBranch(b.key)).current_x >= -5000
       /\ DictGet(seeds, StripBranch(b.key)).current_x <= 20000
    THEN [key |-> b.key,
          val |-> [b.val EXCEPT !.alpha = DictGet(seeds, StripBranch(b.key)).alpha]]
    ELSE b

\* the loop over fine_branch_positions: each branch takes its seed's alpha
MirrorBranch(b, seeds) ==
    IF DictHas(seeds, StripBranch(b.key))
    THEN [key |-> b.key,
          val |-> [b.val EXCEPT !.alpha = DictGet(seeds, StripBranch(b.key)).alpha]]
    ELSE b

MirrorBranches(branches, seeds) ==
    [i \in 1..Len(branches) |-> MirrorBranch(branches[i], seeds)]

\* blowing_elapsed / wind_duration raises on a zero duration
WindRaises(wd) == wd = 0

(***************************************************************************)
(* calculate_sway_offset and the part of draw_swaying_dandelion that       *)
(* writes the seeds' current positions (used by the click detection).      *)
(***************************************************************************)
\* <<dx, dy>> for a year's anchor at (base_x, base_y); t is self.time
calculate_sway_offset(year, base_x, base_y, bv, t, mx, my) ==
    IF year \notin DOMAIN bv THEN <<0, 0>>
    ELSE
      LET params == bv[year]
          wind_sway_x ==
              (params.amplitude
                 * Sin((t * params.frequency) \div 100 + params.phase)) \div 1000
          wind_sway_y ==
              (((params.amplitude * 300) \div 1000)
                 * Cos((t * params.frequency * 13) \div 1000 + params.phase)) \div 1000
          dx == base_x - mx
          dy == base_y - my
          mouse_dist == ISqrt(dx * dx + dy * dy)
          influence == ExpNeg((mouse_dist * 1000) \div 1500)
          mouse_push_x == IF mouse_dist < 3000 THEN (dx * influence) \div 2000 ELSE 0
          mouse_push_y == IF mouse_dist < 3000 THEN (dy * influence) \div 2000 ELSE 0
      IN  <<wind_sway_x + mouse_push_x, wind_sway_y + mouse_push_y>>

\* year_branch_progress, fine_branch_progress, the seed's reveal factor
YearBranchProgress(st, gp) ==
    IF st = "growing" THEN Min(1000, ((gp - 300) * 1000) \div 300) ELSE 1000

\* faulty variant: the fine branches' progress is not capped at 1.0
FineBranchProgressUncapped(st, gp) ==
    IF st = "growing" THEN ((gp - 600) * 1000) \div 250 ELSE 1000

FineBranchProgress(st, gp) ==
    IF st = "growing" THEN Min(1000, ((gp - 600) * 1000) \div 250) ELSE 1000

SeedProgress(st, gp) ==
    IF st = "growing" THEN Min(1000, ((gp - 850) * 1000) \div 150) ELSE 1000

\* base_alpha of stem and branches
BaseAlpha(st, fp) == IF st = "blowing" THEN 1000 - fp ELSE 1000

\* the end of the year branch the seeds hang on (swayed_x, swayed_y)
SwayedEnd(year_pos, st, gp, bv, t, mx, my) ==
    LET sway == calculate_sway_offset(year_pos.year, year_pos.x, year_pos.y,
                                      bv, t, mx, my)
        sx == year_pos.x + sway[1]
        sy == year_pos.y + sway[2]
        visible_points == (25 * YearBranchProgress(st, gp)) \div 1000
    IN  IF st = "growing"
        THEN <<year_pos.center_x + ((sx - year_pos.center_x) * (visible_points - 1)) \div 24,
               year_pos.center_y + ((sy - year_pos.center_y) * (visible_points - 1)) \div 24>>
        ELSE <<sx, sy>>

\* the year's branch is reached by the loop over positions['years']
YearDrawn(st, gp, fp) ==
    /\ BaseAlpha(st, fp) > 10
    /\ st = "growing" => (gp >= 300 /\ (25 * YearBranchProgress(st, gp)) \div 1000 >= 2)

\* the seed's circle is drawn (seed_display_alpha > 0.01 is reached and holds)
SeedDrawn(seed, branch, st, gp, fp) ==
    /\ YearDrawn(st, gp, fp)
    /\ st = "growing" => gp >= 600
    /\ (st = "growing"
          /\ branch.alpha * FineBranchProgress(st, gp) > 10 * 1000)
         => (15 * FineBranchProgress(st, gp)) \div 1000 >= 2
    /\ st = "growing" => gp >= 850
    /\ IF st = "growing"
       THEN seed.alpha * FineBranchProgress(st, gp) * SeedProgress(st, gp)
               > 10 * 1000 * 1000
       ELSE seed.alpha > 10

\* index of the entry of seed_id in positions['typhoons'], 0 if there is none
LayoutIndex(typhoons, seed_id) ==
    IF \E i \in 1..Len(typhoons) : typhoons[i].seed_id = seed_id
    THEN CHOOSE i \in 1..Len(typhoons) : typhoons[i].seed_id = seed_id
    ELSE 0

YearPos(years, year) == years[CHOOSE i \in 1..Len(years) : years[i].year = year]

\* faulty variant: the draw stores the swayed position as the original one too
DrawSeedMovingAnchor(entry, pos, branches, st, gp, fp, bv, t, mx, my) ==
    LET k == LayoutIndex(pos.typhoons, entry.key)
    IN
    IF k = 0 \/ ~DictHas(branches, BranchId(entry.key)) \/ st = "blowing"
    THEN entry
    ELSE
      LET seed == entry.val
          branch == DictGet(branches, BranchId(entry.key))
          swayed == SwayedEnd(YearPos(pos.years, pos.typhoons[k].year),
                              st, gp, bv, t, mx, my)
          final_x == swayed[1] + branch.offset_x
          final_y == swayed[2] + branch.offset_y
          seed_x == final_x + (80 * Sin(t * 30 + final_x * 10)) \div 1000
          seed_y == final_y + (50 * Cos(t * 35 + final_y * 10)) \div 1000
      IN  IF SeedDrawn(seed, branch, st, gp, fp)
          THEN [key |-> entry.key,
                val |-> [seed EXCEPT !.current_x = seed_x, !.current_y = seed_y,
                                      !.original_x = seed_x, !.original_y = seed_y]]
          ELSE entry

\* one seed of the table after draw_swaying_dandelion
DrawSeed(entry, pos, branches, st, gp, fp, bv, t, mx, my) ==
    LET k == LayoutIndex(pos.typhoons, entry.key)
    IN
    IF k = 0 \/ ~DictHas(branches, BranchId(entry.key)) \/ st = "blowing"
    THEN entry
    ELSE
      LET seed == entry.val
          branch == DictGet(branches, BranchId(entry.key))
          swayed == SwayedEnd(YearPos(pos.years, pos.typhoons[k].year),
                              st, gp, bv, t, mx, my)
          final_x == swayed[1] + branch.offset_x
          final_y == swayed[2] + branch.offset_y
          seed_x == final_x + (80 * Sin(t * 30 + final_x * 10)) \div 1000
          seed_y == final_y + (50 * Cos(t * 35 + final_y * 10)) \div 1000
      IN  IF SeedDrawn(seed, branch, st, gp, fp)
          THEN [key |-> entry.key,
                val |-> [seed EXCEPT !.current_x = seed_x, !.current_y = seed_y]]
          ELSE entry

RECURSIVE SumTo(_, _)
SumTo(f, n) == IF n = 0 THEN 0 ELSE f[n] + SumTo(f, n - 1)

\* draw_tapered_branch_natural draws one random width per segment: the
\* segments of the stem, of a year's branch and of a seed's fine branch
StemSegments(st, gp, fp) ==
    IF BaseAlpha(st, fp) <= 10 THEN 0
    ELSE IF st = "growing"
    THEN LET visible_length == (StemLength * Min(1000, (gp * 1000) \div 300)) \div 1000
         IN  IF visible_length > 1 THEN visible_length - 1 ELSE 0
    ELSE StemLength - 1

YearSegments(st, gp, fp) ==
    IF ~YearDrawn(st, gp, fp) THEN 0
    ELSE IF st = "growing" THEN (25 * YearBranchProgress(st, gp)) \div 1000 - 1
    ELSE 24

FineSegments(seed_id, seeds, branches, st, gp, fp) ==
    IF \/ ~YearDrawn(st, gp, fp)
       \/ (st = "growing" /\ gp < 600)
       \/ ~DictHas(branches, BranchId(seed_id))
       \/ ~DictHas(seeds, seed_id)
    THEN 0
    ELSE LET branch == DictGet(branches, BranchId(seed_id))
         IN  IF st = "growing"
             THEN IF /\ branch.alpha * FineBranchProgress(st, gp) > 10 * 1000
                     /\ (15 * FineBranchProgress(st, gp)) \div 1000 >= 2
                  THEN (15 * FineBranchProgress(st, gp)) \div 1000 - 1
                  ELSE 0
             ELSE IF branch.alpha > 10 THEN 14 ELSE 0

\* the seed's fine branch is drawn
FineDrawn(seed_id, seeds, branches, st, gp, fp) ==
    FineSegments(seed_id, seeds, branches, st, gp, fp) > 0

\* stem_progress
StemProgress(st, gp) ==
    IF st = "growing" THEN Min(1000, (gp * 1000) \div 300) ELSE 1000

\* the stem is drawn
StemDrawn(st, gp, fp) == StemSegments(st, gp, fp) > 0

\* the number of np.random.uniform calls of one draw_swaying_dandelion
DrawDraws(seeds, pos, branches, st, gp, fp) ==
    StemSegments(st, gp, fp)
      + Len(pos.years) * YearSegments(st, gp, fp)
      + SumTo([k \in 1..Len(pos.typhoons) |->
                  FineSegments(pos.typhoons[k].seed_id, seeds, branches, st, gp, fp)],
              Len(pos.typhoons))

draw_swaying_dandelion(seeds, pos, branches, st, gp, fp, bv, t, mx, my) ==
    [i \in 1..Len(seeds) |->
        DrawSeed(seeds[i], pos, branches, st, gp, fp, bv, t, mx, my)]

(***************************************************************************)
(* Inputs                                                                  *)
(***************************************************************************)
\* a record of the dataset; wind is in km/h
Typhoon(id, year, wind) == [id |-> id, year |-> year, max_wind_speed |-> wind * Kmh]

\* four records of one year: clusters 0, 1, 2 and a second seed in cluster 0
DataOneYear == <<Typhoon("2020-01", 2020, 200), Typhoon("2020-02", 2020, 70),
                 Typhoon("2020-03", 2020, 130), Typhoon("2020-04", 2020, 50)>>

\* years [2020, 2020, 2021], wind speeds [70, 130, 200]
DataTwoYears == <<Typhoon("2020-01", 2020, 70), Typhoon("2020-02", 2020, 130),
                  Typhoon("2021-01", 2021, 200)>>

Datasets == {<<>>, DataOneYear, DataTwoYears}

\* generator seeds: with seed 6 the two seeds of cluster 0 of DataOneYear overlap
RngSeeds == {6}

\* the frames after which pointer events are delivered
EventFrames == {0, 50, 90, 100, 140, 175, 190, 220, 245, 249, 250, 256}

Event(inaxes, has_data, x, y) ==
    [inaxes |-> inaxes, has_data |-> has_data, xdata |-> x, ydata |-> y]

\* a click inside the axes at distance > 100 from every position a seed takes
FarClick == Event(TRUE, TRUE, 120000, 120000)

(***************************************************************************)
(* State after TyphoonDandelionViz.__init__                                *)
(***************************************************************************)
\* a call on the instance and, for a pointer handler, its event
Call(op, event) == [op |-> op, event |-> event]

InitInstance ==
    /\ pc = "constructed"
    /\ error = "none"
    /\ typhoon_data = <<>>
    /\ positions = None
    /\ branch_velocities = <<>>
    /\ seed_positions = <<>>
    /\ fine_branch_positions = <<>>
    /\ mouse_x = 0
    /\ mouse_y = 0
    /\ time = 0
    /\ lifecycle_state = "growing"
    /\ lifecycle_time = 0
    /\ growth_progress = 0
    /\ fade_progress = 0
    /\ blowing_elapsed = 0
    /\ regrow_duration = DefaultRegrow
    /\ stable_duration = DefaultStable
    /\ wind_duration = DefaultWind
    /\ fade_delay = DefaultFadeDelay
    /\ fade_duration = DefaultFadeDuration
    /\ wind_active = FALSE
    /\ wind_start_time = 0
    /\ selected_typhoon = None
    /\ info_box_visible = FALSE
    /\ info_box_x = 0
    /\ info_box_y = 0
    /\ rng \in RngSeeds
    /\ frames = 0
    /\ last = Call("__init__", None)

Init == InitInstance /\ runs = None /\ probe = None

LifeVars == <<lifecycle_state, lifecycle_time, growth_progress, fade_progress,
              blowing_elapsed, wind_active, wind_start_time>>
ConfigVars == <<regrow_duration, stable_duration, wind_duration, fade_delay,
                fade_duration>>
SelectionVars == <<selected_typhoon, info_box_visible, info_box_x, info_box_y>>
TableVars == <<seed_positions, fine_branch_positions>>
MouseVars == <<mouse_x, mouse_y>>

\* collect_all_data: the dataset of the instance
CollectData(data) ==
    /\ pc = "constructed"
    /\ typhoon_data' = data
    /\ last' = Call("collect_all_data", None)
    /\ UNCHANGED <<pc, error, positions, branch_velocities, TableVars, MouseVars,
                   time, LifeVars, ConfigVars, SelectionVars, rng, frames, runs, probe>>

\* self.branch_velocities[year] = {phase, amplitude, frequency}, in year order
BranchVelocities(years, r) ==
    [y \in {years[i].year : i \in 1..Len(years)} |->
        LET i == CHOOSE j \in 1..Len(years) : years[j].year = y
            r1 == RngAfter(r, 3 * (i - 1) + 1)
            r2 == RngNext(r1)
            r3 == RngNext(r2)
        IN  [phase |-> Uniform(0, 2 * Pi, r1),
             amplitude |-> Uniform(120, 280, r2),
             frequency |-> Uniform(700, 1300, r3)]]

\* create_interactive_animation
CreateAnimation ==
    /\ pc = "constructed"
    /\ last' = Call("create_interactive_animation", None)
    /\ IF LayoutRaises(typhoon_data)
       THEN /\ pc' = "failed"
            /\ error' = "ValueError"
            /\ UNCHANGED <<positions, branch_velocities, TableVars, LifeVars, rng>>
       ELSE LET lay == CalculateDandelion(typhoon_data, seed_positions,
                                          fine_branch_positions, rng)
            IN  /\ pc' = "animating"
                /\ error' = "none"
                /\ positions' = [stem |-> Stem, years |-> lay.years,
                                 typhoons |-> lay.typhoons]
                /\ seed_positions' = lay.seeds
                /\ fine_branch_positions' = lay.branches
                /\ branch_velocities' = BranchVelocities(lay.years, lay.rng)
                /\ rng' = RngAfter(lay.rng, 3 * Len(lay.years))
                /\ lifecycle_state' = "growing"
                /\ lifecycle_time' = 0
                /\ growth_progress' = 0
                /\ UNCHANGED <<fade_progress, blowing_elapsed, wind_active,
                               wind_start_time>>
    /\ UNCHANGED <<typhoon_data, MouseVars, time, ConfigVars, SelectionVars, frames,
                   runs, probe>>

(***************************************************************************)
(* animate(frame): one tick of the animation                               *)
(***************************************************************************)
Life == LifeFields(lifecycle_state, lifecycle_time, growth_progress, fade_progress,
                   blowing_elapsed, wind_active, wind_start_time)

Config == Durations(regrow_duration, stable_duration, wind_duration, fade_delay,
                    fade_duration)

\* the lifecycle fields after "self.lifecycle_time += dt; self.update_lifecycle()"
LifeTick(l, cfg, now, dt) ==
    update_lifecycle([l EXCEPT !.lifecycle_time = l.lifecycle_time + dt,
                               !.reset = FALSE, !.raised = "none"],
                     cfg, now)

Animate(dt) ==
    LET now == time + dt
        l == LifeTick(Life, Config, now, dt)
        seeds0 == IF l.reset THEN reset_seeds(seed_positions) ELSE seed_positions
        branches0 == IF l.reset THEN reset_branches(fine_branch_positions)
                     ELSE fine_branch_positions
        blows == l.raised = "none" /\ l.wind_active
        raises == l.raised # "none" \/ (blows /\ WindRaises(wind_duration))
        wp == WindProgress(l.blowing_elapsed, wind_duration)
        seeds1 == IF blows /\ ~raises THEN BlowSeeds(seeds0, wp, rng) ELSE seeds0
        branches1 == IF blows /\ ~raises THEN MirrorBranches(branches0, seeds1)
                     ELSE branches0
    IN  /\ time' = now
        /\ frames' = frames + 1
        /\ lifecycle_state' = l.lifecycle_state
        /\ lifecycle_time' = l.lifecycle_time
        /\ growth_progress' = l.growth_progress
        /\ fade_progress' = l.fade_progress
        /\ blowing_elapsed' = l.blowing_elapsed
        /\ wind_active' = l.wind_active
        /\ wind_start_time' = l.wind_start_time
        /\ fine_branch_positions' = branches1
        /\ IF raises
           THEN /\ pc' = "failed"
                /\ error' = "ZeroDivisionError"
                /\ seed_positions' = seeds1
                /\ rng' = rng
           ELSE /\ pc' = pc
                /\ error' = error
                /\ seed_positions' =
                     draw_swaying_dandelion(seeds1, positions, branches1,
                                            l.lifecycle_state, l.growth_progress,
                                            l.fade_progress, branch_velocities,
                                            now, mouse_x, mouse_y)
                /\ rng' = RngAfter(IF blows THEN RngAfter(rng, 2 * Len(seeds0)) ELSE rng,
                                    DrawDraws(seed_positions', positions,
                                              fine_branch_positions', lifecycle_state',
                                              growth_progress', fade_progress'))

\* faulty variant: the tick that resets the seed positions also drops the selection
TickDroppingSelection ==
    /\ pc = "animating"
    /\ frames < MaxFrames
    /\ Animate(DT)
    /\ last' = Call("animate", None)
    /\ selected_typhoon' =
         IF lifecycle_state = "blowing" /\ lifecycle_state' = "growing"
         THEN None ELSE selected_typhoon
    /\ info_box_visible' =
         IF lifecycle_state = "blowing" /\ lifecycle_state' = "growing"
         THEN FALSE ELSE info_box_visible
    /\ UNCHANGED <<typhoon_data, positions, branch_velocities, MouseVars,
                   ConfigVars, info_box_x, info_box_y, runs, probe>>

Tick ==
    /\ pc = "animating"
    /\ frames < MaxFrames
    /\ Animate(DT)
    /\ last' = Call("animate", None)
    /\ UNCHANGED <<typhoon_data, positions, branch_velocities, MouseVars,
                   ConfigVars, SelectionVars, runs, probe>>

(***************************************************************************)
(* on_click and on_mouse_move                                              *)
(***************************************************************************)
\* distance <= seed_radius * 1.5 with seed_radius = size / 1200
Hit(seed, click_x, click_y) ==
    LET dx == click_x - seed.current_x
        dy == click_y - seed.current_y
    IN  /\ 4 * Abs(dx) <= 5 * seed.size
        /\ 4 * Abs(dy) <= 5 * seed.size
        /\ 16 * (dx * dx + dy * dy) <= 25 * seed.size * seed.size

\* faulty variant: the loop does not return at a hit, the last hit wins
LastHit(seeds, click_x, click_y) ==
    IF \E i \in 1..Len(seeds) : Hit(seeds[i].val, click_x, click_y)
    THEN CHOOSE i \in 1..Len(seeds) :
            /\ Hit(seeds[i].val, click_x, click_y)
            /\ \A j \in (i + 1)..Len(seeds) : ~Hit(seeds[j].val, click_x, click_y)
    ELSE 0

\* the entry at which the loop over seed_positions returns, 0 if it runs out
FirstHit(seeds, click_x, click_y) ==
    IF \E i \in 1..Len(seeds) : Hit(seeds[i].val, click_x, click_y)
    THEN CHOOSE i \in 1..Len(seeds) :
            /\ Hit(seeds[i].val, click_x, click_y)
            /\ \A j \in 1..(i - 1) : ~Hit(seeds[j].val, click_x, click_y)
    ELSE 0

\* faulty variant: a click that hits no seed leaves the selection as it was
on_click_keeping(event) ==
    IF ~event.inaxes \/ ~event.has_data
    THEN UNCHANGED SelectionVars
    ELSE LET k == FirstHit(seed_positions, event.xdata, event.ydata)
         IN  IF k # 0
             THEN /\ selected_typhoon' = seed_positions[k].val.typhoon
                  /\ info_box_visible' = TRUE
                  /\ info_box_x' = seed_positions[k].val.current_x
                  /\ info_box_y' = seed_positions[k].val.current_y
             ELSE UNCHANGED SelectionVars

\* faulty variant: a click that hits no seed hides the box and keeps the record
on_click_hiding_only(event) ==
    IF ~event.inaxes \/ ~event.has_data
    THEN UNCHANGED SelectionVars
    ELSE LET k == FirstHit(seed_positions, event.xdata, event.ydata)
         IN  IF k # 0
             THEN /\ selected_typhoon' = seed_positions[k].val.typhoon
                  /\ info_box_visible' = TRUE
                  /\ info_box_x' = seed_positions[k].val.current_x
                  /\ info_box_y' = seed_positions[k].val.current_y
             ELSE /\ info_box_visible' = FALSE
                  /\ UNCHANGED <<selected_typhoon, info_box_x, info_box_y>>

\* faulty variant: a click outside the main axes is handled as a miss
on_click_clearing_outside(event) ==
    IF ~event.has_data
    THEN UNCHANGED SelectionVars
    ELSE LET k == IF event.inaxes
                  THEN FirstHit(seed_positions, event.xdata, event.ydata) ELSE 0
         IN  IF k # 0
             THEN /\ selected_typhoon' = seed_positions[k].val.typhoon
                  /\ info_box_visible' = TRUE
                  /\ info_box_x' = seed_positions[k].val.current_x
                  /\ info_box_y' = seed_positions[k].val.current_y
             ELSE /\ info_box_visible' = FALSE
                  /\ selected_typhoon' = None
                  /\ UNCHANGED <<info_box_x, info_box_y>>

on_click(event) ==
    IF ~event.inaxes \/ ~event.has_data
    THEN UNCHANGED SelectionVars
    ELSE LET k == FirstHit(seed_positions, event.xdata, event.ydata)
         IN  IF k # 0
             THEN /\ selected_typhoon' = seed_positions[k].val.typhoon
                  /\ info_box_visible' = TRUE
                  /\ info_box_x' = seed_positions[k].val.current_x
                  /\ info_box_y' = seed_positions[k].val.current_y
             ELSE /\ info_box_visible' = FALSE
                  /\ selected_typhoon' = None
                  /\ UNCHANGED <<info_box_x, info_box_y>>

\* the click events delivered: on each seed's centre, to the right of it at
\* the distance 1.5 * size / 1200 and just beyond, far from every seed,
\* outside every axes, inside the main axes without data coordinates, and in
\* another axes of the figure with data coordinates that are the first seed's
ClickEvents ==
    UNION {{Event(TRUE, TRUE, seed_positions[i].val.current_x + d,
                  seed_positions[i].val.current_y) :
               d \in {0, (5 * seed_positions[i].val.size) \div 4,
                         (5 * seed_positions[i].val.size) \div 4 + 1}} :
             i \in 1..Len(seed_positions)}
    \cup {FarClick, Event(FALSE, FALSE, 0, 0),
          Event(TRUE, FALSE, 0, 0)}
    \cup {Event(FALSE, TRUE, seed_positions[i].val.current_x,
                seed_positions[i].val.current_y) : i \in 1..Min(1, Len(seed_positions))}

Click(event) ==
    /\ pc # "failed"
    /\ frames \in EventFrames
    /\ on_click(event)
    /\ last' = Call("on_click", event)
    /\ UNCHANGED <<pc, error, typhoon_data, positions, branch_velocities, TableVars,
                   MouseVars, time, LifeVars, ConfigVars, rng, frames, runs, probe>>

\* faulty variant: the event's axes are not compared with the main axes
on_mouse_move_anywhere(event) ==
    /\ mouse_x' = event.xdata
    /\ mouse_y' = event.ydata

on_mouse_move(event) ==
    IF event.inaxes /\ event.has_data
    THEN /\ mouse_x' = event.xdata
         /\ mouse_y' = event.ydata
    ELSE UNCHANGED MouseVars

\* the pointer-move events delivered: near the seeds, and outside the axes
MoveEvents == {Event(TRUE, TRUE, 8000, 5000), Event(FALSE, FALSE, 0, 0)}

\* the frames after which pointer-move events are delivered
MoveFrames == {0, 140}

MouseMove(event) ==
    /\ pc = "animating"
    /\ frames \in MoveFrames
    /\ on_mouse_move(event)
    /\ last' = Call("on_mouse_move", event)
    /\ UNCHANGED <<pc, error, typhoon_data, positions, branch_velocities, TableVars,
                   time, LifeVars, ConfigVars, SelectionVars, rng, frames, runs, probe>>

Next ==
    \/ \E data \in Datasets : CollectData(data)
    \/ CreateAnimation
    \/ Tick
    \/ \E event \in ClickEvents : Click(event)
    \/ \E event \in MoveEvents : MouseMove(event)

Spec == Init /\ [][Next]_vars

(***************************************************************************)
(* Configured durations: regrow_duration, stable_duration, wind_duration,  *)
(* fade_delay and fade_duration are attributes of the instance, assigned   *)
(* before the animation is created.                                        *)
(***************************************************************************)
DurationChoices == {0, 12}

Configs == {Durations(a, b, c, d, e) :
              a \in DurationChoices, b \in DurationChoices, c \in DurationChoices,
              d \in DurationChoices, e \in DurationChoices}

Configure(cfg) ==
    /\ pc = "constructed"
    /\ regrow_duration' = cfg.regrow_duration
    /\ stable_duration' = cfg.stable_duration
    /\ wind_duration' = cfg.wind_duration
    /\ fade_delay' = cfg.fade_delay
    /\ fade_duration' = cfg.fade_duration
    /\ last' = Call("configure", None)
    /\ UNCHANGED <<pc, error, typhoon_data, positions, branch_velocities, TableVars,
                   MouseVars, time, LifeVars, SelectionVars, rng, frames, runs, probe>>

NextConfigured ==
    \/ \E cfg \in Configs : Configure(cfg)
    \/ \E data \in Datasets : CollectData(data)
    \/ CreateAnimation
    \/ Tick

SpecConfigured == Init /\ [][NextConfigured]_vars

(***************************************************************************)
(* Two lifecycle clocks started in the same growing state and ticked with  *)
(* different dt: each applies "lifecycle_time += dt; update_lifecycle()"   *)
(* as animate does, under the default durations.                           *)
(***************************************************************************)
MaxRunTime == 1100

\* pairs of tick sizes (1/100 s)
TickSizes == {<<4, 2>>, <<4, 8>>, <<4, 12>>}

Run(dt) == [life |-> LifeFields("growing", 0, 0, 0, 0, FALSE, 0), time |-> 0, dt |-> dt]

StepRun(r) ==
    [life |-> LifeTick(r.life, Config, r.time + r.dt, r.dt),
     time |-> r.time + r.dt, dt |-> r.dt]

InitGranularity ==
    /\ InitInstance
    /\ runs \in {[a |-> Run(p[1]), b |-> Run(p[2])] : p \in TickSizes}
    /\ probe = None

AdvanceA ==
    /\ runs.a.time <= runs.b.time
    /\ runs.a.time < MaxRunTime
    /\ runs' = [runs EXCEPT !.a = StepRun(runs.a)]
    /\ UNCHANGED <<pc, error, typhoon_data, positions, branch_velocities, TableVars,
                   MouseVars, time, LifeVars, ConfigVars, SelectionVars, rng, frames,
                   last, probe>>

AdvanceB ==
    /\ runs.b.time < runs.a.time
    /\ runs' = [runs EXCEPT !.b = StepRun(runs.b)]
    /\ UNCHANGED <<pc, error, typhoon_data, positions, branch_velocities, TableVars,
                   MouseVars, time, LifeVars, ConfigVars, SelectionVars, rng, frames,
                   last, probe>>

NextGranularity == AdvanceA \/ AdvanceB

SpecGranularity == InitGranularity /\ [][NextGranularity]_vars

(***************************************************************************)
(* The layout of bounded datasets: collect_all_data delivers any sequence  *)
(* of up to MaxRecords records over LayoutYears, and the layout is         *)
(* computed from it.  NormalizeCounts evaluates the locals typhoon_counts, *)
(* min_count, max_count, count_range and each year's normalized_count of   *)
(* calculate_dandelion_from_bottom_left on the dataset of the instance.    *)
(***************************************************************************)
MaxRecords == 6

LayoutYears == {2020, 2021, 2022}

\* the k-th record of a dataset: wind speeds 45, 90, 135, ... km/h
LayoutRecord(k, year) == Typhoon(ToString(k), year, 45 * k)

LayoutDatasets ==
    UNION {{[k \in 1..n |-> LayoutRecord(k, f[k])] : f \in [1..n -> LayoutYears]} :
             n \in 1..MaxRecords}

\* the locals of the layout that depend on the record counts alone
LayoutCounts(data) ==
    [op |-> "normalized_count",
     years |-> SortedYears(data),
     typhoon_counts |-> TyphoonCounts(data),
     min_count |-> MinCount(data),
     max_count |-> MaxCount(data),
     count_range |-> CountRange(data),
     normalized_count |->
        [i \in 1..Len(SortedYears(data)) |->
            NormalizedCount(TyphoonCounts(data)[i], MinCount(data), CountRange(data))]]

NormalizeCounts ==
    /\ pc = "constructed"
    /\ ~LayoutRaises(typhoon_data)
    /\ probe' = LayoutCounts(typhoon_data)
    /\ UNCHANGED <<pc, error, typhoon_data, positions, branch_velocities, TableVars,
                   MouseVars, time, LifeVars, ConfigVars, SelectionVars, rng, frames,
                   last, runs>>

\* main() calls collect_all_data once, on the fresh instance
CollectOnce(data) ==
    /\ last.op = "__init__"
    /\ CollectData(data)

NextLayout ==
    \/ \E data \in LayoutDatasets : CollectOnce(data)
    \/ NormalizeCounts
    \/ CreateAnimation

SpecLayout == Init /\ [][NextLayout]_vars

(***************************************************************************)
(* The functions of a wind speed, evaluated on every speed from 0 to       *)
(* MaxWindSpeed km/h in steps of 1/2 km/h: the three classify_typhoon on   *)
(* one speed, calculate_seed_size on a speed and on a speed not below it.  *)
(***************************************************************************)
MaxWindSpeed == 200

WindSpeeds == 0..(MaxWindSpeed * Kmh)

Classify ==
    /\ probe = None
    /\ \E wind_speed \in WindSpeeds :
         probe' = [op |-> "classify_typhoon",
                   wind_speed |-> wind_speed,
                   visualizer |-> classify_typhoon(wind_speed),
                   crawler |-> crawler_classify_typhoon(wind_speed),
                   part_000 |-> part_000_classify_typhoon(wind_speed)]
    /\ UNCHANGED <<pc, error, typhoon_data, positions, branch_velocities, TableVars,
                   MouseVars, time, LifeVars, ConfigVars, SelectionVars, rng, frames,
                   last, runs>>

SeedSize ==
    /\ probe = None
    /\ \E wind_speed \in WindSpeeds : \E faster \in wind_speed..(MaxWindSpeed * Kmh) :
         probe' = [op |-> "calculate_seed_size",
                   wind_speed |-> wind_speed,
                   size |-> calculate_seed_size(wind_speed),
                   faster |-> faster,
                   faster_size |-> calculate_seed_size(faster)]
    /\ UNCHANGED <<pc, error, typhoon_data, positions, branch_velocities, TableVars,
                   MouseVars, time, LifeVars, ConfigVars, SelectionVars, rng, frames,
                   last, runs>>

NextFunctions == Classify \/ SeedSize

SpecFunctions == Init /\ [][NextFunctions]_vars

(***************************************************************************)
(* reset_positions called by the host, twice in a row, between two ticks;  *)
(* probe keeps the tables as they were before the first call and between   *)
(* the two calls.                                                          *)
(***************************************************************************)
\* the frames after which the host calls reset_positions
ResetFrames == {0, 60, 120, 180, 220, 249}

ResetPositionsTwice ==
    /\ pc = "animating"
    /\ frames \in ResetFrames
    /\ probe' = [op |-> "reset_positions",
                 before |-> <<seed_positions, fine_branch_positions>>,
                 once |-> <<reset_seeds(seed_positions),
                            reset_branches(fine_branch_positions)>>]
    /\ seed_positions' = reset_seeds(reset_seeds(seed_positions))
    /\ fine_branch_positions' = reset_branches(reset_branches(fine_branch_positions))
    /\ last' = Call("reset_positions", None)
    /\ UNCHANGED <<pc, error, typhoon_data, positions, branch_velocities, MouseVars,
                   time, LifeVars, ConfigVars, SelectionVars, rng, frames, runs>>

NextReset ==
    \/ \E data \in Datasets : CollectData(data)
    \/ CreateAnimation
    \/ Tick
    \/ ResetPositionsTwice

SpecReset == Init /\ [][NextReset]_vars

(***************************************************************************)
(* The lifecycle under ticks that never stop: FuncAnimation(repeat=True)   *)
(* calls animate again and again.  LifecycleTick is what animate does to   *)
(* the clock and the lifecycle fields ("self.time += dt;                   *)
(* self.lifecycle_time += dt; self.update_lifecycle()") for positive       *)
(* durations; update_lifecycle reads neither the tables nor self.time      *)
(* (which it only stores in wind_start_time), so the tables are left out   *)
(* and the clock is kept modulo ClockWrap to make the lifecycle's states   *)
(* finitely many.                                                          *)
(***************************************************************************)
ClockWrap == 2 * DT

\* tick sizes dt > 0 (1/100 s)
LiveTicks == {DT, 3 * DT}

\* positive durations (1/100 s)
LiveDurations == {DT, 10}

LiveConfigs == {Durations(a, b, c, d, e) :
                  a \in LiveDurations, b \in LiveDurations, c \in LiveDurations,
                  d \in LiveDurations, e \in LiveDurations}

LifecycleTick(dt) ==
    LET now == (time + dt) % ClockWrap
        l == LifeTick(Life, Config, now, dt)
    IN  /\ pc = "animating"
        /\ l.raised = "none"
        /\ time' = now
        /\ lifecycle_state' = l.lifecycle_state
        /\ lifecycle_time' = l.lifecycle_time
        /\ growth_progress' = l.growth_progress
        /\ fade_progress' = l.fade_progress
        /\ blowing_elapsed' = l.blowing_elapsed
        /\ wind_active' = l.wind_active
        /\ wind_start_time' = l.wind_start_time
        /\ last' = Call("animate", None)
        /\ UNCHANGED <<pc, error, typhoon_data, positions, branch_velocities,
                       TableVars, MouseVars, ConfigVars, SelectionVars, rng, frames,
                       runs, probe>>

Ticking == \E dt \in LiveTicks : LifecycleTick(dt)

NextLive ==
    \/ \E cfg \in LiveConfigs : Configure(cfg)
    \/ CollectOnce(DataTwoYears)
    \/ CreateAnimation
    \/ Ticking

\* the timer of the animation keeps firing
SpecLive == Init /\ [][NextLive]_vars /\ WF_vars(Ticking)

(***************************************************************************)
(* Pointer moves interleaved with ticks.  The drawing surface delivers up  *)
(* to MaxMoves motion_notify_event events, any number of them between two  *)
(* ticks; probe keeps the events in the order of delivery, and what the    *)
(* last tick read in calculate_sway_offset: self.mouse_x and self.mouse_y, *)
(* and how many events had been delivered by then.                         *)
(***************************************************************************)
MaxMoves == 3

\* inside the main axes at two places, outside the main axes (matplotlib sets
\* xdata and ydata together, and to None outside every axes), and inside
\* without data coordinates
PointerEvents == {Event(TRUE, TRUE, 8000, 5000), Event(TRUE, TRUE, 3000, 9000),
                  Event(FALSE, FALSE, 0, 0), Event(TRUE, FALSE, 0, 0)}

\* the frames after which pointer-move events are delivered
PointerFrames == {0, 30, 31, 140, 200}

PointerLog ==
    IF probe = None THEN [op |-> "pointer", moves |-> <<>>, read |-> None, seen |-> 0]
    ELSE probe

PointerMove(event) ==
    /\ pc = "animating"
    /\ frames \in PointerFrames
    /\ Len(PointerLog.moves) < MaxMoves
    /\ on_mouse_move(event)
    /\ last' = Call("on_mouse_move", event)
    /\ probe' = [PointerLog EXCEPT !.moves = Append(PointerLog.moves, event)]
    /\ UNCHANGED <<pc, error, typhoon_data, positions, branch_velocities, TableVars,
                   time, LifeVars, ConfigVars, SelectionVars, rng, frames, runs>>

\* the draw reaches calculate_sway_offset for a year
SwayComputed(pos, st, gp, fp) ==
    /\ Len(pos.years) > 0
    /\ BaseAlpha(st, fp) > 10
    /\ st = "growing" => gp >= 300

PointerTick ==
    /\ pc = "animating"
    /\ frames < MaxFrames
    /\ Animate(DT)
    /\ last' = Call("animate", None)
    /\ probe' = [PointerLog EXCEPT
                    !.read = IF SwayComputed(positions, lifecycle_state',
                                             growth_progress', fade_progress')
                             THEN <<mouse_x, mouse_y>> ELSE None,
                    !.seen = Len(PointerLog.moves)]
    /\ UNCHANGED <<typhoon_data, positions, branch_velocities, MouseVars,
                   ConfigVars, SelectionVars, runs>>

NextPointer ==
    \/ CollectOnce(DataTwoYears)
    \/ CreateAnimation
    \/ PointerTick
    \/ \E event \in PointerEvents : PointerMove(event)

SpecPointer == Init /\ [][NextPointer]_vars

(***************************************************************************)
(* A second animation on the same instance: at one of RestartFrames the    *)
(* host calls collect_all_data and then create_interactive_animation       *)
(* again.  The tables, the sway parameters and the lifecycle fields are    *)
(* attributes of the instance, so the second call starts from what the     *)
(* first animation left; the ticks that follow are those of the new        *)
(* animation.  probe keeps the lifecycle state before the second call.     *)
(***************************************************************************)
\* the frames after which the host starts over: before the first tick, while
\* growing, while stable, and while blowing before and after the fade begins
RestartFrames == {0, 50, 120, 200, 240}

CollectAgain(data) ==
    /\ pc = "animating"
    /\ frames \in RestartFrames
    /\ probe = None
    /\ typhoon_data' = data
    /\ last' = Call("collect_all_data", None)
    /\ probe' = [op |-> "collect_all_data"]
    /\ UNCHANGED <<pc, error, positions, branch_velocities, TableVars, MouseVars,
                   time, LifeVars, ConfigVars, SelectionVars, rng, frames, runs>>

\* self.branch_velocities[year] = {...} for the years of the new layout; the
\* entries of other years stay
MergeVelocities(old, new) ==
    [y \in (DOMAIN old) \cup (DOMAIN new) |->
        IF y \in DOMAIN new THEN new[y] ELSE old[y]]

\* create_interactive_animation on an instance that is animating
RestartAnimation ==
    /\ pc = "animating"
    /\ frames \in RestartFrames
    /\ probe # None
    /\ probe.op = "collect_all_data"
    /\ last' = Call("create_interactive_animation", None)
    /\ probe' = [op |-> "create_interactive_animation",
                 lifecycle_state |-> lifecycle_state,
                 seed_ids |-> [i \in 1..Len(seed_positions) |-> seed_positions[i].key]]
    /\ IF LayoutRaises(typhoon_data)
       THEN /\ pc' = "failed"
            /\ error' = "ValueError"
            /\ UNCHANGED <<positions, branch_velocities, TableVars, LifeVars, rng>>
       ELSE LET lay == CalculateDandelion(typhoon_data, seed_positions,
                                          fine_branch_positions, rng)
            IN  /\ pc' = "animating"
                /\ error' = "none"
                /\ positions' = [stem |-> Stem, years |-> lay.years,
                                 typhoons |-> lay.typhoons]
                /\ seed_positions' = lay.seeds
                /\ fine_branch_positions' = lay.branches
                /\ branch_velocities' =
                     MergeVelocities(branch_velocities,
                                     BranchVelocities(lay.years, lay.rng))
                /\ rng' = RngAfter(lay.rng, 3 * Len(lay.years))
                /\ lifecycle_state' = "growing"
                /\ lifecycle_time' = 0
                /\ growth_progress' = 0
                /\ UNCHANGED <<fade_progress, blowing_elapsed, wind_active,
                               wind_start_time>>
    /\ UNCHANGED <<typhoon_data, MouseVars, time, ConfigVars, SelectionVars, frames,
                   runs>>

\* the frames after which the new animation's canvas delivers clicks
RestartClickFrames == {245, 250}

ClickAfterRestart(event) ==
    /\ pc = "animating"
    /\ probe # None
    /\ probe.op = "create_interactive_animation"
    /\ frames \in RestartClickFrames
    /\ on_click(event)
    /\ last' = Call("on_click", event)
    /\ UNCHANGED <<pc, error, typhoon_data, positions, branch_velocities, TableVars,
                   MouseVars, time, LifeVars, ConfigVars, rng, frames, runs, probe>>

NextRestart ==
    \/ \E data \in Datasets : CollectData(data)
    \/ CreateAnimation
    \/ Tick
    \/ \E data \in Datasets : CollectAgain(data)
    \/ RestartAnimation
    \/ \E event \in ClickEvents : ClickAfterRestart(event)

SpecRestart == Init /\ [][NextRestart]_vars

(***************************************************************************)
(* HKOTyphoonCrawler.fetch_typhoon_data_from_pdf (src/data_crawler.py).    *)
(* What the call depends on outside the program is an input: whether a PDF *)
(* library was imported, what session.get does (raises, or answers with a  *)
(* status code), whether reading the PDF raises, the length of the text    *)
(* extracted, the number of distinct valid names the patterns find in it,  *)
(* and the number np.random.randint(4, 8) gives generate_fallback_data.    *)
(* A record is modelled by its year and source.                            *)
(***************************************************************************)
MaxNamesFound == 10

CrawlerYears == {2014, 2024}

\* session.get raises, or returns a response with this status code
Responses == {"raises", "200", "404", "500"}

\* len(full_text)
TextLengths == {0, 99, 100, 5000}

\* np.random.randint(4, 8)
FallbackCounts == 4..7

CrawlerRecord(year, source) == [year |-> year, source |-> source]

\* generate_fallback_data: min(num_typhoons, 24) simulated records
generate_fallback_data(year, num_typhoons) ==
    [i \in 1..Min(num_typhoons, 24) |-> CrawlerRecord(year, "Simulated")]

\* typhoons[:n]
Prefix(typhoons, n) == SubSeq(typhoons, 1, Min(Len(typhoons), n))

\* faulty variant: fewer than 3 names are not topped up with generated records
parse_pdf_content_unfilled(year, reader_raises, text_length, names_found, num_typhoons) ==
    IF reader_raises THEN generate_fallback_data(year, num_typhoons)
    ELSE IF text_length < 100 THEN generate_fallback_data(year, num_typhoons)
    ELSE Prefix([i \in 1..Min(names_found, 8) |-> CrawlerRecord(year, "HKO_PDF")], 10)

\* parse_pdf_content; extract_typhoon_names returns at most 8 names
parse_pdf_content(year, reader_raises, text_length, names_found, num_typhoons) ==
    IF reader_raises THEN generate_fallback_data(year, num_typhoons)
    ELSE IF text_length < 100 THEN generate_fallback_data(year, num_typhoons)
    ELSE
      LET typhoons == [i \in 1..Min(names_found, 8) |-> CrawlerRecord(year, "HKO_PDF")]
          additional == generate_fallback_data(year, num_typhoons)
          extended == IF Len(typhoons) < 3
                      THEN typhoons \o Prefix(additional, Max(0, 6 - Len(typhoons)))
                      ELSE typhoons
      IN  Prefix(extended, 10)

fetch_typhoon_data_from_pdf(year, library, response, reader_raises, text_length, names_found, num_typhoons) ==
    IF ~library THEN generate_fallback_data(year, num_typhoons)
    ELSE IF response = "raises" THEN generate_fallback_data(year, num_typhoons)
    ELSE IF response = "200"
    THEN parse_pdf_content(year, reader_raises, text_length, names_found, num_typhoons)
    ELSE generate_fallback_data(year, num_typhoons)

Fetch ==
    /\ probe = None
    /\ \E year \in CrawlerYears, library \in BOOLEAN, response \in Responses,
          reader_raises \in BOOLEAN, text_length \in TextLengths,
          names_found \in 0..MaxNamesFound, num_typhoons \in FallbackCounts :
         probe' = [op |-> "fetch_typhoon_data_from_pdf",
                   year |-> year, library |-> library, response |-> response,
                   reader_raises |-> reader_raises, text_length |-> text_length,
                   names_found |-> names_found, num_typhoons |-> num_typhoons,
                   result |-> fetch_typhoon_data_from_pdf(
                                 year, library, response, reader_raises,
                                 text_length, names_found, num_typhoons)]
    /\ UNCHANGED <<pc, error, typhoon_data, positions, branch_velocities, TableVars,
                   MouseVars, time, LifeVars, ConfigVars, SelectionVars, rng, frames,
                   last, runs>>

NextCrawler == Fetch

SpecCrawler == Init /\ [][NextCrawler]_vars

(***************************************************************************)
(* Claims                                                                  *)
(***************************************************************************)
Seeds == {seed_positions[i].val : i \in 1..Len(seed_positions)}
Branches == {fine_branch_positions[i].val : i \in 1..Len(fine_branch_positions)}

CycleLength == regrow_duration + stable_duration + wind_duration

SeedAtRest(s) ==
    /\ s.current_x = s.original_x
    /\ s.current_y = s.original_y
    /\ s.velocity_x = 0
    /\ s.velocity_y = 0
    /\ s.alpha = 850

\* C1: on a fresh instance with a computed layout, when the accumulated time
\* equals regrow + stable + wind (250 ticks of 0.04 s) the machine is back in
\* growing with growth_progress 0 and the wind off, every seed is at its
\* original position with zero velocity and alpha 0.85, and every fine branch
\* has alpha 0.75.
C1_FullCycleReturnsToGrowing ==
    (pc = "animating" /\ time = CycleLength) =>
        /\ frames = 250
        /\ lifecycle_state = "growing"
        /\ growth_progress = 0
        /\ ~wind_active
        /\ \A s \in Seeds : SeedAtRest(s)
        /\ \A b \in Branches : b.alpha = 750

C1_Witness ==
    /\ pc = "animating"
    /\ time = CycleLength
    /\ last.op = "animate"
    /\ Len(seed_positions) > 0

\* C2: the lifecycle state changes only along growing -> stable -> blowing ->
\* growing, and only at a tick whose elapsed time in the state has reached the
\* state's duration (for growing: growth_progress >= 1.0); whenever that
\* holds at a tick the transition is taken and the elapsed time restarts at
\* 0; no other step changes the lifecycle state.
C2_Successor(st) ==
    IF st = "growing" THEN "stable"
    ELSE IF st = "stable" THEN "blowing" ELSE "growing"

C2_Duration(st) ==
    IF st = "growing" THEN regrow_duration
    ELSE IF st = "stable" THEN stable_duration ELSE wind_duration

C2_Step ==
    IF frames' = frames + 1
    THEN LET elapsed == lifecycle_time + DT
         IN  IF elapsed >= C2_Duration(lifecycle_state)
             THEN /\ lifecycle_state' = C2_Successor(lifecycle_state)
                  /\ lifecycle_time' = 0
                  /\ lifecycle_state = "growing" => growth_progress' >= 1000
             ELSE /\ lifecycle_state' = lifecycle_state
                  /\ lifecycle_time' = elapsed
                  /\ lifecycle_state = "growing" => growth_progress' < 1000
    ELSE lifecycle_state' = lifecycle_state

C2_TransitionsOnlyAtExit == [][C2_Step]_vars

C2_Witness ==
    /\ lifecycle_state = "blowing"
    /\ lifecycle_time = 0
    /\ last.op = "animate"

\* C3: two runs from the same growing state whose tick sizes differ but whose
\* total elapsed time is the same are in the same lifecycle state, with the
\* same elapsed time in the state, growth_progress and fade_progress.
C3_SameTimeSameState ==
    runs.a.time = runs.b.time =>
        /\ runs.a.life.lifecycle_state = runs.b.life.lifecycle_state
        /\ runs.a.life.lifecycle_time = runs.b.life.lifecycle_time
        /\ runs.a.life.growth_progress = runs.b.life.growth_progress
        /\ runs.a.life.fade_progress = runs.b.life.fade_progress

\* C4: for any configured durations a tick completes without error and
\* leaves the state in growing / stable / blowing with growth_progress and
\* fade_progress within [0, 1].
C4_TickIsTotal ==
    /\ error # "ZeroDivisionError"
    /\ lifecycle_state \in {"growing", "stable", "blowing"}
    /\ growth_progress \in 0..1000
    /\ fade_progress \in 0..1000

\* C5: every seed's alpha and every fine branch's alpha lies in [0, 1].
C5_AlphaInUnitRange ==
    /\ \A s \in Seeds : s.alpha >= 0 /\ s.alpha <= 1000
    /\ \A b \in Branches : b.alpha >= 0 /\ b.alpha <= 1000

C5_Witness ==
    /\ lifecycle_state = "blowing"
    /\ \E s \in Seeds : s.current_x < -5000 /\ s.alpha = 0
    /\ \E b \in Branches : b.alpha = 0

\* C6: while blowing, fade_progress is within [0, 1], it is 0 whenever
\* blowing_elapsed < fade_delay, and it does not decrease from one blowing
\* tick to the next.
C6_Step ==
    /\ lifecycle_state' = "blowing" =>
          /\ fade_progress' >= 0
          /\ fade_progress' <= 1000
          /\ blowing_elapsed' < fade_delay' => fade_progress' = 0
    /\ (lifecycle_state = "blowing" /\ lifecycle_state' = "blowing") =>
          fade_progress' >= fade_progress

InsideClick == last.op = "on_click" /\ last.event.inaxes /\ last.event.has_data

\* C7: a click inside the main axes at the current position of a seed with
\* size > 0 selects that seed's record: afterwards selected_typhoon is the
\* seed's record and the info box is visible at the seed's position.
C7_ClickOnSeedSelectsIt ==
    InsideClick =>
        \A s \in Seeds :
            (s.size > 0 /\ s.current_x = last.event.xdata
                        /\ s.current_y = last.event.ydata) =>
                /\ selected_typhoon = s.typhoon
                /\ info_box_visible
                /\ info_box_x = s.current_x
                /\ info_box_y = s.current_y

\* the distance from (x, y) to the seed exceeds 1.5 * size / 1200
C8_Outside(s, x, y) ==
    \/ 4 * Abs(x - s.current_x) > 5 * s.size
    \/ 4 * Abs(y - s.current_y) > 5 * s.size
    \/ 16 * ((x - s.current_x) * (x - s.current_x)
               + (y - s.current_y) * (y - s.current_y)) > 25 * s.size * s.size

\* C8: a click inside the main axes that is outside every seed's hit radius,
\* also with an empty seed table, sets the selection to None, hides the info
\* box and raises no error.
C8_ClickMissClears ==
    (InsideClick /\ \A s \in Seeds : C8_Outside(s, last.event.xdata, last.event.ydata)) =>
        /\ selected_typhoon = None
        /\ ~info_box_visible
        /\ error = "none"
        /\ pc # "failed"

C8_Witness ==
    /\ InsideClick
    /\ last.event = FarClick
    /\ Len(seed_positions) > 0
    /\ lifecycle_state = "blowing"
    /\ selected_typhoon = None

\* C9: no step other than a click changes selected_typhoon or
\* info_box_visible; in particular no tick does, whatever the lifecycle
\* state, including the tick that resets the seed positions.
C9_Step ==
    last'.op # "on_click" =>
        /\ selected_typhoon' = selected_typhoon
        /\ info_box_visible' = info_box_visible

C9_TicksKeepSelection == [][C9_Step]_vars

C9_Witness ==
    /\ selected_typhoon # None
    /\ info_box_visible
    /\ last.op = "animate"
    /\ lifecycle_state = "growing"
    /\ time >= CycleLength

\* C10: computing the layout of an empty record set does not fail: it
\* returns a layout with the stem only, no year anchors and no seeds, and the
\* seed and fine-branch tables stay empty.
C10_EmptyLayoutSucceeds ==
    (last.op = "create_interactive_animation" /\ typhoon_data = <<>>) =>
        /\ pc = "animating"
        /\ error = "none"
        /\ positions = [stem |-> Stem, years |-> <<>>, typhoons |-> <<>>]
        /\ seed_positions = <<>>
        /\ fine_branch_positions = <<>>

\* C11: for every non-empty dataset each year's normalized_count lies in
\* [0.5, 1.0]; a year with the minimum record count has 0.5 and, when the
\* counts differ, a year with the maximum record count has 1.0; when all
\* years have the same count, count_range is 1 (never 0).
C11_NormalizedCountInRange ==
    probe # None /\ probe.op = "normalized_count" =>
        LET n == Len(probe.typhoon_counts)
        IN  /\ n > 0
            /\ Len(probe.normalized_count) = n
            /\ \A i \in 1..n : probe.min_count <= probe.typhoon_counts[i]
            /\ \A i \in 1..n : probe.max_count >= probe.typhoon_counts[i]
            /\ probe.count_range > 0
            /\ probe.max_count = probe.min_count => probe.count_range = 1
            /\ \A i \in 1..n :
                 /\ probe.normalized_count[i] >= 500
                 /\ probe.normalized_count[i] <= 1000
                 /\ probe.typhoon_counts[i] = probe.min_count
                      => probe.normalized_count[i] = 500
                 /\ (probe.max_count > probe.min_count
                       /\ probe.typhoon_counts[i] = probe.max_count)
                      => probe.normalized_count[i] = 1000

C11_Witness ==
    /\ probe # None
    /\ probe.op = "normalized_count"
    /\ \E i, j, k \in 1..Len(probe.normalized_count) :
         /\ probe.normalized_count[i] = 500
         /\ probe.normalized_count[j] > 500
         /\ probe.normalized_count[j] < 1000
         /\ probe.normalized_count[k] = 1000

\* the layout of the dataset of the instance has just been computed
LayoutDone == pc = "animating" /\ last.op = "create_interactive_animation"

\* C12: the layout of a non-empty dataset has one year anchor per distinct
\* year and one seed anchor and one fine-branch anchor per record: no record
\* is dropped or duplicated by the split into clusters, seed ids are pairwise
\* distinct, each seed references its own record and carries its record's
\* year (years [2020, 2020, 2021] give 2 year anchors and 3 seeds).
C12_OneAnchorPerRecord ==
    LayoutDone =>
        LET n == Len(typhoon_data)
            years == {typhoon_data[k].year : k \in 1..n}
        IN  /\ Len(positions.years) = Cardinality(years)
            /\ \A y \in years :
                 Cardinality({i \in 1..Len(positions.years) :
                                 positions.years[i].year = y}) = 1
            /\ Len(positions.typhoons) = n
            /\ Len(seed_positions) = n
            /\ Len(fine_branch_positions) = n
            /\ \A i, j \in 1..Len(seed_positions) :
                 seed_positions[i].key = seed_positions[j].key => i = j
            /\ \A i, j \in 1..Len(positions.typhoons) :
                 positions.typhoons[i].seed_id = positions.typhoons[j].seed_id => i = j
            /\ \A k \in 1..n :
                 /\ Cardinality({i \in 1..Len(seed_positions) :
                                    seed_positions[i].val.typhoon = typhoon_data[k]}) = 1
                 /\ Cardinality({i \in 1..Len(positions.typhoons) :
                                    positions.typhoons[i].typhoon = typhoon_data[k]}) = 1
            /\ \A i \in 1..Len(seed_positions) :
                 /\ seed_positions[i].val.year = seed_positions[i].val.typhoon.year
                 /\ seed_positions[i].key[1] = seed_positions[i].val.year
                 /\ Cardinality({j \in 1..Len(fine_branch_positions) :
                                    fine_branch_positions[j].key
                                      = BranchId(seed_positions[i].key)}) = 1
                 /\ \A j \in 1..Len(fine_branch_positions) :
                      fine_branch_positions[j].key = BranchId(seed_positions[i].key)
                        => fine_branch_positions[j].val.year = seed_positions[i].val.year
            /\ \A i \in 1..Len(positions.typhoons) :
                 positions.typhoons[i].year = positions.typhoons[i].typhoon.year
            /\ [k \in 1..n |-> typhoon_data[k].year] = <<2020, 2020, 2021>>
                 => Len(positions.years) = 2 /\ Len(seed_positions) = 3

\* a layout of two years, one of them with five records in three clusters
C12_Witness ==
    /\ LayoutDone
    /\ Len(positions.years) = 2
    /\ Len(seed_positions) = 6
    /\ Cardinality({i \in 1..6 : seed_positions[i].val.year = 2020}) = 5
    /\ \E i \in 1..6 : seed_positions[i].key = <<2020, 1, 1>>

C13_Categories ==
    {"Tropical Depression", "Tropical Storm", "Severe Tropical Storm", "Typhoon",
     "Severe Typhoon", "Super Typhoon"}

\* C13: for every wind speed >= 0, whole or fractional, each classify_typhoon
\* returns one of the six categories, and the visualizer's and the crawler's
\* classify_typhoon return the same category (so do the two visualizers).
C13_ClassifiersAgree ==
    probe # None /\ probe.op = "classify_typhoon" =>
        /\ probe.visualizer \in C13_Categories
        /\ probe.crawler \in C13_Categories
        /\ probe.part_000 \in C13_Categories
        /\ probe.visualizer = probe.crawler
        /\ probe.visualizer = probe.part_000

C16_Cutoffs == <<63, 88, 118, 150, 185>>
C16_Sizes == <<40, 70, 110, 160, 220, 290>>

\* C16: calculate_seed_size is the step function < 63 -> 40, < 88 -> 70,
\* < 118 -> 110, < 150 -> 160, < 185 -> 220, otherwise 290 of the wind speed
\* in km/h, and a wind speed that is not lower gives a size that is not
\* smaller.
C16_SeedSizeStepFunction ==
    probe # None /\ probe.op = "calculate_seed_size" =>
        /\ probe.size =
             C16_Sizes[1 + Cardinality({i \in 1..5 :
                                          probe.wind_speed >= C16_Cutoffs[i] * Kmh})]
        /\ probe.size <= probe.faster_size

\* 62.5 km/h and 63 km/h
C16_Witness ==
    /\ probe # None
    /\ probe.op = "calculate_seed_size"
    /\ probe.wind_speed = 125 /\ probe.size = 40
    /\ probe.faster = 126 /\ probe.faster_size = 70

\* C14: reset_positions is idempotent: after two calls in a row the seed and
\* fine-branch tables are exactly as they were after the first call.
C14_ResetIdempotent ==
    last.op = "reset_positions" =>
        <<seed_positions, fine_branch_positions>> = probe.once

\* reset_positions called twice while the wind has moved and faded the seeds
C14_Witness ==
    /\ last.op = "reset_positions"
    /\ lifecycle_state = "blowing"
    /\ probe.once # probe.before
    /\ \E i \in 1..Len(probe.before[1]) :
         /\ probe.before[1][i].val.velocity_x # 0
         /\ probe.before[1][i].val.alpha < 850
         /\ SeedAtRest(seed_positions[i].val)
    /\ \E j \in 1..Len(probe.before[2]) :
         /\ probe.before[2][j].val.alpha < 750
         /\ fine_branch_positions[j].val.alpha = 750

\* a seed and a fine branch without the fields a tick may write
C15_SeedLayout(s) ==
    [s EXCEPT !.current_x = 0, !.current_y = 0, !.velocity_x = 0, !.velocity_y = 0,
              !.alpha = 0]

C15_BranchLayout(b) == [b EXCEPT !.alpha = 0]

\* C15: no tick (lifecycle update, wind update, hard reset, draw), click or
\* pointer move modifies layout data: the seeds' original_x, original_y,
\* size, year and record, the fine branches' offsets and year, the ids of
\* both tables and the layout with its year anchors stay as computed; only
\* current_x, current_y, velocity_x, velocity_y and alpha of a seed and
\* alpha of a fine branch may change.
C15_Step ==
    last'.op \in {"animate", "on_click", "on_mouse_move"} =>
        /\ positions' = positions
        /\ typhoon_data' = typhoon_data
        /\ Len(seed_positions') = Len(seed_positions)
        /\ Len(fine_branch_positions') = Len(fine_branch_positions)
        /\ \A i \in 1..Len(seed_positions) :
             /\ seed_positions'[i].key = seed_positions[i].key
             /\ C15_SeedLayout(seed_positions'[i].val)
                  = C15_SeedLayout(seed_positions[i].val)
        /\ \A i \in 1..Len(fine_branch_positions) :
             /\ fine_branch_positions'[i].key = fine_branch_positions[i].key
             /\ C15_BranchLayout(fine_branch_positions'[i].val)
                  = C15_BranchLayout(fine_branch_positions[i].val)

C15_TicksKeepLayout == [][C15_Step]_vars

\* a tick of the wind phase has moved a seed, and the draw of an earlier tick
\* had moved it before
C15_Witness ==
    /\ last.op = "animate"
    /\ lifecycle_state = "blowing"
    /\ blowing_elapsed > 100
    /\ \E s \in Seeds :
         /\ s.current_x < s.original_x - 1000
         /\ s.velocity_x < 0
         /\ s.alpha < 850
    /\ \E b \in Branches : b.alpha < 750

\* C17: while blowing, fade_progress is 0 until blowing_elapsed >= fade_delay
\* and then min(1, (blowing_elapsed - fade_delay) / fade_duration); and every
\* blowing phase reaches fade_progress = 1 before it ends (fade_progress does
\* not decrease while blowing, so it is 1 when the phase is left).
C17_Step ==
    /\ lifecycle_state' = "blowing" =>
         fade_progress' =
            IF blowing_elapsed' < fade_delay' THEN 0
            ELSE LET ramp == ((blowing_elapsed' - fade_delay') * 1000) \div fade_duration'
                 IN  IF ramp < 1000 THEN ramp ELSE 1000
    /\ (lifecycle_state = "blowing" /\ lifecycle_state' # "blowing") =>
         fade_progress = 1000

C17_FadeReachesOne == [][C17_Step]_vars

\* the distance from (x, y) to the seed is at most 1.5 * size / 1200
C18_Within(s, x, y) == ~C8_Outside(s, x, y)

\* the entries of the seed table a click at (x, y) is within reach of
C18_Reached(x, y) ==
    {i \in 1..Len(seed_positions) : C18_Within(seed_positions[i].val, x, y)}

\* C18: a click inside the main axes selects a seed's record only if the
\* click is within 1.5 * size / 1200 of the seed's current position, the
\* boundary included; when several seeds are within reach, the first of them
\* in the insertion order of the seed table is the one selected, whether or
\* not it is the nearest.
C18_FirstMatchSelected ==
    InsideClick =>
        LET reached == C18_Reached(last.event.xdata, last.event.ydata)
        IN  IF reached = {}
            THEN selected_typhoon = None /\ ~info_box_visible
            ELSE LET first == CHOOSE i \in reached : \A j \in reached : i <= j
                 IN  /\ selected_typhoon = seed_positions[first].val.typhoon
                     /\ info_box_visible
                     /\ info_box_x = seed_positions[first].val.current_x
                     /\ info_box_y = seed_positions[first].val.current_y

\* a click on the centre of the second of two seeds within reach selects the
\* first one
C18_Witness ==
    /\ InsideClick
    /\ \E i, j \in C18_Reached(last.event.xdata, last.event.ydata) :
         /\ i < j
         /\ seed_positions[j].val.current_x = last.event.xdata
         /\ seed_positions[j].val.current_y = last.event.ydata
         /\ selected_typhoon = seed_positions[i].val.typhoon
         /\ selected_typhoon # seed_positions[j].val.typhoon

\* the lifecycle has just entered state st
C19_Entered(st) == lifecycle_state = st /\ lifecycle_time = 0

\* C19: under ticks that never stop, with dt > 0 and positive durations, the
\* lifecycle is never stuck: from every state of the running animation each
\* of growing, stable and blowing is eventually entered again.
C19_LifecycleRepeats ==
    /\ [](pc = "animating" => <>C19_Entered("growing"))
    /\ [](pc = "animating" => <>C19_Entered("stable"))
    /\ [](pc = "animating" => <>C19_Entered("blowing"))

\* growing has been entered again after a blowing phase
C19_Witness ==
    /\ pc = "animating"
    /\ last.op = "animate"
    /\ C19_Entered("growing")
    /\ blowing_elapsed >= wind_duration
    /\ wind_duration > 0

\* C20: in every state reached from the layout of a fresh instance by ticks
\* in which the lifecycle state is growing or stable, every seed's
\* velocity_x and velocity_y are 0.
C20_NoVelocityUnlessBlowing ==
    lifecycle_state \in {"growing", "stable"} =>
        \A s \in Seeds : s.velocity_x = 0 /\ s.velocity_y = 0

\* growing again, after a wind phase that had set the seeds in motion
C20_Witness ==
    /\ pc = "animating"
    /\ last.op = "animate"
    /\ lifecycle_state = "growing"
    /\ lifecycle_time > 0
    /\ blowing_elapsed >= wind_duration
    /\ Seeds # {}
    /\ \A s \in Seeds : s.velocity_x = 0 /\ s.velocity_y = 0

\* C21: after every tick that leaves the lifecycle in blowing, each fine
\* branch's alpha equals the alpha of its own seed (the seed whose id is the
\* branch id without the 'branch_' prefix), also for the seeds that have left
\* the range [-5, 20] and decay towards 0.
C21_BranchMirrorsSeed ==
    (pc = "animating" /\ lifecycle_state = "blowing") =>
        \A j \in 1..Len(fine_branch_positions) :
            /\ DictHas(seed_positions, StripBranch(fine_branch_positions[j].key))
            /\ fine_branch_positions[j].val.alpha
                 = DictGet(seed_positions,
                           StripBranch(fine_branch_positions[j].key)).alpha

\* a seed out of range is decaying while another is still in range
C21_Witness ==
    /\ pc = "animating"
    /\ last.op = "animate"
    /\ lifecycle_state = "blowing"
    /\ \E i, j \in 1..Len(seed_positions) :
         /\ seed_positions[i].val.current_x < -5000
         /\ seed_positions[i].val.alpha > 0
         /\ seed_positions[j].val.current_x >= -5000
         /\ seed_positions[j].val.alpha # seed_positions[i].val.alpha
         /\ DictGet(fine_branch_positions, BranchId(seed_positions[i].key)).alpha
              = seed_positions[i].val.alpha

\* the seed of entry i of the seed table and its fine branch, as the draw of
\* the current tick shows them
C22_SeedShown(i) ==
    /\ LayoutIndex(positions.typhoons, seed_positions[i].key) # 0
    /\ DictHas(fine_branch_positions, BranchId(seed_positions[i].key))
    /\ SeedDrawn(seed_positions[i].val,
                 DictGet(fine_branch_positions, BranchId(seed_positions[i].key)),
                 lifecycle_state, growth_progress, fade_progress)

C22_FineShown(i) ==
    /\ LayoutIndex(positions.typhoons, seed_positions[i].key) # 0
    /\ FineDrawn(seed_positions[i].key, seed_positions, fine_branch_positions,
                 lifecycle_state, growth_progress, fade_progress)

C22_YearShown == YearDrawn(lifecycle_state, growth_progress, fade_progress)

\* C22: while growing, year branches are drawn only when growth_progress >=
\* 0.3, fine branches only when it is >= 0.6 and seeds only when it is >=
\* 0.85; the progress of each stage used for drawing is within [0, 1]; a seed
\* is shown only together with its fine branch, and a fine branch only
\* together with the year branches.
C22_StagedReveal ==
    (pc = "animating" /\ lifecycle_state = "growing") =>
        /\ StemProgress(lifecycle_state, growth_progress) \in 0..1000
        /\ C22_YearShown => growth_progress >= 300
        /\ growth_progress >= 300 =>
              YearBranchProgress(lifecycle_state, growth_progress) \in 0..1000
        /\ growth_progress >= 600 =>
              FineBranchProgress(lifecycle_state, growth_progress) \in 0..1000
        /\ growth_progress >= 850 =>
              SeedProgress(lifecycle_state, growth_progress) \in 0..1000
        /\ \A i \in 1..Len(seed_positions) :
              /\ C22_FineShown(i) => (growth_progress >= 600 /\ C22_YearShown)
              /\ C22_SeedShown(i) => (growth_progress >= 850 /\ C22_FineShown(i))

\* late in a growing phase the seeds are shown, with their fine branches
C22_Witness ==
    /\ pc = "animating"
    /\ last.op = "animate"
    /\ lifecycle_state = "growing"
    /\ growth_progress > 850
    /\ growth_progress < 1000
    /\ Len(seed_positions) > 0
    /\ \A i \in 1..Len(seed_positions) : C22_SeedShown(i) /\ C22_FineShown(i)

\* the position of the last of the events that is inside the main axes with
\* data coordinates; (0, 0), the pointer of __init__, if there is none
C23_LastInside(moves) ==
    LET inside == {i \in 1..Len(moves) : moves[i].inaxes /\ moves[i].has_data}
    IN  IF inside = {} THEN <<0, 0>>
        ELSE LET k == CHOOSE i \in inside : \A j \in inside : j <= i
             IN  <<moves[k].xdata, moves[k].ydata>>

\* C23: for any interleaving of pointer-move events and ticks, the pointer
\* position a tick reads is the position of the most recent pointer-move
\* event delivered inside the main axes before that tick; events outside the
\* main axes or without data coordinates leave the stored position unchanged.
C23_PointerLastValueWins ==
    (probe # None /\ probe.op = "pointer") =>
        /\ <<mouse_x, mouse_y>> = C23_LastInside(probe.moves)
        /\ probe.read # None =>
              probe.read = C23_LastInside(SubSeq(probe.moves, 1, probe.seen))

\* two events inside the axes and then one outside were delivered between two
\* ticks, the tick read the second one, and a further event came after it
C23_Witness ==
    /\ probe # None
    /\ probe.op = "pointer"
    /\ last.op = "on_mouse_move"
    /\ probe.seen = 2
    /\ Len(probe.moves) = 3
    /\ probe.moves[1] = Event(TRUE, TRUE, 8000, 5000)
    /\ probe.moves[2] = Event(TRUE, TRUE, 3000, 9000)
    /\ probe.moves[3] = Event(FALSE, FALSE, 0, 0)
    /\ probe.read = <<3000, 9000>>
    /\ mouse_x = 3000

\* the seed table without the positions, which the draw may write
C24_Motion(seeds) ==
    [i \in 1..Len(seeds) |->
        [seeds[i].val EXCEPT !.current_x = 0, !.current_y = 0]]

\* C24: in every state reached from a fresh instance by ticks, after the
\* tick's lifecycle update wind_active is true if and only if the lifecycle
\* state is blowing; the integration of update_wind_blowing is applied to the
\* seeds by a tick exactly when the state after the lifecycle update is
\* blowing.
C24_Step ==
    /\ wind_active <=> lifecycle_state = "blowing"
    /\ wind_active' <=> lifecycle_state' = "blowing"
    /\ (last'.op = "animate" /\ pc' = "animating") =>
          IF lifecycle_state' = "blowing"
          THEN seed_positions' =
                  BlowSeeds(seed_positions,
                            WindProgress(blowing_elapsed', wind_duration), rng)
          ELSE C24_Motion(seed_positions') =
                  C24_Motion(IF lifecycle_state = "blowing"
                             THEN reset_seeds(seed_positions) ELSE seed_positions)

C24_WindActiveIffBlowing == [][C24_Step]_vars

\* the tick that enters blowing has already set the seeds in motion
C24_Witness ==
    /\ pc = "animating"
    /\ last.op = "animate"
    /\ lifecycle_state = "blowing"
    /\ wind_active
    /\ blowing_elapsed = 0
    /\ \E s \in Seeds : s.velocity_x # 0 \/ s.velocity_y # 0

\* the draw does not show the seed: the seeds' stage of a growing phase has
\* not begun, or the wind has faded the seed out
C25_Hidden(s) ==
    \/ lifecycle_state = "growing" /\ growth_progress < 850
    \/ lifecycle_state = "blowing" /\ s.alpha <= 10

\* C25: a click selects a seed only while the seed is displayed: while
\* growing with growth_progress < 0.85, and while blowing once the seed's
\* alpha is <= 0.01, a click at the seed's stored current position does not
\* select it.
C25_ClickSelectsOnlyDisplayed ==
    InsideClick =>
        \A s \in Seeds :
            (C25_Hidden(s) /\ s.current_x = last.event.xdata
                           /\ s.current_y = last.event.ydata) =>
                selected_typhoon # s.typhoon

\* the layout of the current dataset has been computed
C26_LayoutCurrent ==
    /\ pc = "animating"
    /\ ~(probe # None /\ probe.op = "collect_all_data")

C26_LayoutIds == {positions.typhoons[k].seed_id : k \in 1..Len(positions.typhoons)}

\* C26: after the layout of the current dataset has been computed, the seed
\* table and the fine-branch table hold exactly one entry per record of that
\* dataset and nothing else, also when the layout of another dataset was
\* computed on the instance before: no seed of an earlier layout remains.
C26_NoStaleSeeds ==
    C26_LayoutCurrent =>
        /\ Len(seed_positions) = Len(typhoon_data)
        /\ Len(fine_branch_positions) = Len(typhoon_data)
        /\ \A i \in 1..Len(seed_positions) :
              /\ seed_positions[i].key \in C26_LayoutIds
              /\ \E k \in 1..Len(typhoon_data) :
                    seed_positions[i].val.typhoon = typhoon_data[k]
        /\ \A j \in 1..Len(fine_branch_positions) :
              StripBranch(fine_branch_positions[j].key) \in C26_LayoutIds

\* C29: immediately after create_interactive_animation the lifecycle is in a
\* clean growing state: lifecycle_time 0, growth_progress 0, fade_progress 0,
\* wind inactive, every seed at its original position with zero velocity and
\* alpha 0.85, also when the instance's previous animation was blowing.
C29_RestartIsClean ==
    (pc = "animating" /\ last.op = "create_interactive_animation") =>
        /\ lifecycle_state = "growing"
        /\ lifecycle_time = 0
        /\ growth_progress = 0
        /\ fade_progress = 0
        /\ ~wind_active
        /\ \A s \in Seeds : SeedAtRest(s)

\* C27: in every reachable state, after any sequence of clicks inside or
\* outside the axes, hits or misses, interleaved with ticks, info_box_visible
\* is true if and only if selected_typhoon is not None.
C27_BoxVisibleIffSelected == info_box_visible <=> selected_typhoon # None

\* a seed has been selected, then a click missed, while the seeds are at rest
C27_Witness ==
    /\ InsideClick
    /\ lifecycle_state = "stable"
    /\ ~info_box_visible
    /\ selected_typhoon = None
    /\ info_box_x # 0

\* C28: a click outside the main axes, or without data coordinates, leaves
\* selected_typhoon, info_box_visible and the position of the info box as
\* they were: a selection is neither cleared nor replaced.
C28_Step ==
    (last'.op = "on_click" /\ (~last'.event.inaxes \/ ~last'.event.has_data)) =>
        UNCHANGED SelectionVars

C28_OutsideClickIsNoOp == [][C28_Step]_vars

\* a click in another axes, with the coordinates of a seed that is not the
\* selected one
C28_Witness ==
    /\ last.op = "on_click"
    /\ ~last.event.inaxes
    /\ last.event.has_data
    /\ selected_typhoon # None
    /\ info_box_visible
    /\ \E s \in Seeds :
         /\ s.current_x = last.event.xdata
         /\ s.current_y = last.event.ydata
         /\ s.typhoon # selected_typhoon

\* the PDF was read and its text parsed
C30_Parsed ==
    /\ probe.library
    /\ probe.response = "200"
    /\ ~probe.reader_raises
    /\ probe.text_length >= 100

\* C30: fetch_typhoon_data_from_pdf returns generated fallback records when
\* the PDF library is unavailable, the status is not 200, the request
\* raises, the text has fewer than 100 characters or parsing raises; in
\* every outcome it returns a list of 3 to 8 records, each of the requested
\* year.
C30_FetchAlwaysReturnsRecords ==
    (probe # None /\ probe.op = "fetch_typhoon_data_from_pdf") =>
        /\ Len(probe.result) >= 3
        /\ Len(probe.result) <= 8
        /\ \A i \in 1..Len(probe.result) : probe.result[i].year = probe.year
        /\ ~C30_Parsed =>
              /\ Len(probe.result) = probe.num_typhoons
              /\ \A i \in 1..Len(probe.result) :
                    probe.result[i].source = "Simulated"

\* the text of the PDF names one typhoon: it is returned with five generated
\* records
C30_Witness ==
    /\ probe # None
    /\ probe.op = "fetch_typhoon_data_from_pdf"
    /\ C30_Parsed
    /\ probe.names_found = 1
    /\ probe.num_typhoons = 7
    /\ Len(probe.result) = 6
    /\ probe.result[1].source = "HKO_PDF"
    /\ probe.result[6].source = "Simulated"

====
